---- MODULE Spec2Model ----
(***************************************************************************)
(* Model of the chat pipeline of araviel-api: the routing resolver         *)
(* (resolveModel, findSupportedBackup), the provider registry              *)
(* (getProvider), the vendor adapters (stream generators), and the stream  *)
(* orchestrator (POST, handleChat, streamFromProvider, finalize) writing   *)
(* to the SSE writer and to the record store.                              *)
(***************************************************************************)
EXTENDS Integers, Sequences, FiniteSets, TLC

(***************************************************************************)
(* Bounds of the model.                                                    *)
(***************************************************************************)
\* longest oracle backup list drawn for a chat request
MaxBackups == 1
\* most vendor stream chunks an adapter reads in one attempt
MaxChunks == 1

(***************************************************************************)
(* Vendors, models and the oracle (ADE) response.                          *)
(***************************************************************************)
SUPPORTED_PROVIDERS == {"openai", "anthropic", "google", "perplexity"}

\* an ADEModelResult as the oracle returns it
ADEModel(id, provider, score) ==
    [id |-> id, name |-> id, provider |-> provider, score |-> score,
     reasoning |-> [summary |-> "picked", factors |-> <<>>]]

\* the candidate models the oracle draws from: two on supported vendors,
\* one on a vendor the backend has no adapter for
Catalogue ==
    { ADEModel("gpt-4.1", "openai", 9),
      ADEModel("claude-sonnet-4-6", "anthropic", 8),
      ADEModel("mistral-large", "mistral", 7) }

RECURSIVE SeqsUpTo(_, _)
SeqsUpTo(S, n) ==
    IF n = 0 THEN { <<>> }
    ELSE LET shorter == SeqsUpTo(S, n - 1)
         IN  shorter \cup { Append(s, x) : s \in shorter, x \in S }

NoModelId == ""
SelectedIds == { NoModelId, "gpt-4.1", "not-a-real-model" }

\* adeResponse.fallback: absent (null), or an ADEFallback whose message may
\* be the empty string
NoFallback ==
    [present |-> FALSE, supported |-> TRUE, category |-> "", message |-> "",
     suggestedPlatforms |-> <<>>]

ADEFallback(message) ==
    [present |-> TRUE, supported |-> FALSE, category |-> "image_generation",
     message |-> message, suggestedPlatforms |-> <<"midjourney">>]

Fallbacks == { NoFallback, ADEFallback("Image generation is not supported"), ADEFallback("") }

ADEResponses ==
    [ primaryModel : Catalogue,
      backupModels : SeqsUpTo(Catalogue, MaxBackups),
      fallback : Fallbacks ]

(***************************************************************************)
(* chat-helpers.ts: resolveModel and findSupportedBackup.                  *)
(***************************************************************************)
toModelInfo(m) ==
    [id |-> m.id, name |-> m.name, provider |-> m.provider, score |-> m.score,
     reasoning |-> m.reasoning.summary]

MapSeq(s, F(_)) == [i \in 1..Len(s) |-> F(s[i])]

FilterSeq(s, P(_)) == SelectSeq(s, P)

\* index of the first element of s satisfying P, 0 when there is none
FirstIndex(s, P(_)) ==
    IF \E i \in 1..Len(s) : P(s[i])
    THEN CHOOSE i \in 1..Len(s) : P(s[i]) /\ \A j \in 1..(i - 1) : ~P(s[j])
    ELSE 0

\* the characters of the model ids and prefixes the model uses
Chars(s) ==
    CASE s = "gpt-4.1" -> <<"g", "p", "t", "-", "4", ".", "1">>
      [] s = "claude-sonnet-4-6" ->
            <<"c", "l", "a", "u", "d", "e", "-", "s", "o", "n", "n", "e", "t", "-", "4", "-", "6">>
      [] s = "mistral-large" ->
            <<"m", "i", "s", "t", "r", "a", "l", "-", "l", "a", "r", "g", "e">>
      [] s = "gemini-2.5-pro" ->
            <<"g", "e", "m", "i", "n", "i", "-", "2", ".", "5", "-", "p", "r", "o">>
      [] s = "grok-3" -> <<"g", "r", "o", "k", "-", "3">>
      [] s = "not-a-real-model" ->
            <<"n", "o", "t", "-", "a", "-", "r", "e", "a", "l", "-", "m", "o", "d", "e", "l">>
      [] s = "claude-opus-4" ->
            <<"c", "l", "a", "u", "d", "e", "-", "o", "p", "u", "s", "-", "4">>
      [] s = "Claude-3" -> <<"C", "l", "a", "u", "d", "e", "-", "3">>
      [] s = "gpt-5" -> <<"g", "p", "t", "-", "5">>
      [] s = "o3-mini" -> <<"o", "3", "-", "m", "i", "n", "i">>
      [] s = "o4-mini" -> <<"o", "4", "-", "m", "i", "n", "i">>
      [] s = "o1" -> <<"o", "1">>
      [] s = "gemini-flash" ->
            <<"g", "e", "m", "i", "n", "i", "-", "f", "l", "a", "s", "h">>
      [] s = "sonar-pro" -> <<"s", "o", "n", "a", "r", "-", "p", "r", "o">>
      [] s = "son" -> <<"s", "o", "n">>
      [] s = "claude" -> <<"c", "l", "a", "u", "d", "e">>
      [] s = "gpt" -> <<"g", "p", "t">>
      [] s = "o3" -> <<"o", "3">>
      [] s = "o4" -> <<"o", "4">>
      [] s = "gemini" -> <<"g", "e", "m", "i", "n", "i">>
      [] s = "sonar" -> <<"s", "o", "n", "a", "r">>
      [] s = "gpt-4o-mini" -> <<"g", "p", "t", "-", "4", "o", "-", "m", "i", "n", "i">>
      [] s = "gemini-2.5-flash-lite" ->
            <<"g", "e", "m", "i", "n", "i", "-", "2", ".", "5", "-", "f", "l", "a", "s", "h",
              "-", "l", "i", "t", "e">>
      [] s = "llama-4" -> <<"l", "l", "a", "m", "a", "-", "4">>
      [] s = "gpt-4o" -> <<"g", "p", "t", "-", "4", "o">>
      [] s = "gpt-4o-mini-2024-07-18" ->
            <<"g", "p", "t", "-", "4", "o", "-", "m", "i", "n", "i", "-", "2", "0", "2", "4",
              "-", "0", "7", "-", "1", "8">>
      [] OTHER -> <<>>

\* String.prototype.startsWith
startsWith(s, prefix) ==
    LET c == Chars(s)
        q == Chars(prefix)
    IN  Len(q) <= Len(c) /\ SubSeq(c, 1, Len(q)) = q

\* guessProviderFromModelId without the sonar prefix
guessProviderFromModelId_NoSonar(modelId) ==
    IF startsWith(modelId, "claude") THEN "anthropic"
    ELSE IF startsWith(modelId, "gpt") \/ startsWith(modelId, "o3") \/ startsWith(modelId, "o4")
         THEN "openai"
    ELSE IF startsWith(modelId, "gemini") THEN "google"
    ELSE "openai"

guessProviderFromModelId(modelId) ==
    IF startsWith(modelId, "claude") THEN "anthropic"
    ELSE IF startsWith(modelId, "gpt") \/ startsWith(modelId, "o3") \/ startsWith(modelId, "o4")
         THEN "openai"
    ELSE IF startsWith(modelId, "gemini") THEN "google"
    ELSE IF startsWith(modelId, "sonar") THEN "perplexity"
    ELSE "openai"

NoModel == [id |-> "", name |-> "", provider |-> "", score |-> 0, reasoning |-> ""]

NoResolution ==
    [ok |-> FALSE, model |-> NoModel, backupModels |-> <<>>, isManualSelection |-> FALSE]

\* resolveManual keeping the selected model among the backups
resolveManual_SelectedKept(adeResponse, selectedModelId) ==
    LET allModels == <<adeResponse.primaryModel>> \o adeResponse.backupModels
        IsSelected(m) == m.id = selectedModelId
        sel == FirstIndex(allModels, IsSelected)
    IN  IF sel # 0
        THEN [ok |-> TRUE,
              model |-> toModelInfo(allModels[sel]),
              backupModels |-> MapSeq(allModels, toModelInfo),
              isManualSelection |-> TRUE]
        ELSE [ok |-> TRUE,
              model |-> [id |-> selectedModelId, name |-> selectedModelId,
                         provider |-> guessProviderFromModelId(selectedModelId),
                         score |-> 0, reasoning |-> "Manually selected by user"],
              backupModels |-> MapSeq(allModels, toModelInfo),
              isManualSelection |-> TRUE]

\* resolveManual drawing the backups of a matched selection from the oracle's
\* backups only, so that the oracle's primary is lost
resolveManual_BackupsOnly(adeResponse, selectedModelId) ==
    LET allModels == <<adeResponse.primaryModel>> \o adeResponse.backupModels
        IsSelected(m) == m.id = selectedModelId
        NotSelected(m) == m.id # selectedModelId
        sel == FirstIndex(allModels, IsSelected)
    IN  IF sel # 0
        THEN [ok |-> TRUE,
              model |-> toModelInfo(allModels[sel]),
              backupModels |->
                  MapSeq(FilterSeq(adeResponse.backupModels, NotSelected), toModelInfo),
              isManualSelection |-> TRUE]
        ELSE [ok |-> TRUE,
              model |-> [id |-> selectedModelId, name |-> selectedModelId,
                         provider |-> guessProviderFromModelId(selectedModelId),
                         score |-> 0, reasoning |-> "Manually selected by user"],
              backupModels |-> MapSeq(allModels, toModelInfo),
              isManualSelection |-> TRUE]

\* resolveModel with a selectedModelId: the manual selection branch
resolveManual(adeResponse, selectedModelId) ==
    LET allModels == <<adeResponse.primaryModel>> \o adeResponse.backupModels
        IsSelected(m) == m.id = selectedModelId
        NotSelected(m) == m.id # selectedModelId
        sel == FirstIndex(allModels, IsSelected)
    IN  IF sel # 0
        THEN [ok |-> TRUE,
              model |-> toModelInfo(allModels[sel]),
              backupModels |-> MapSeq(FilterSeq(allModels, NotSelected), toModelInfo),
              isManualSelection |-> TRUE]
        ELSE [ok |-> TRUE,
              model |-> [id |-> selectedModelId, name |-> selectedModelId,
                         provider |-> guessProviderFromModelId(selectedModelId),
                         score |-> 0, reasoning |-> "Manually selected by user"],
              backupModels |-> MapSeq(allModels, toModelInfo),
              isManualSelection |-> TRUE]

\* resolveAuto with the backups on unsupported vendors filtered out of the
\* chain of a supported primary
resolveAuto_Filtered(adeResponse) ==
    LET primary == adeResponse.primaryModel
        Supported(m) == m.provider \in SUPPORTED_PROVIDERS
        bk == FirstIndex(adeResponse.backupModels, Supported)
    IN  IF Supported(primary)
        THEN [ok |-> TRUE,
              model |-> toModelInfo(primary),
              backupModels |->
                  MapSeq(FilterSeq(adeResponse.backupModels, Supported), toModelInfo),
              isManualSelection |-> FALSE]
        ELSE IF bk # 0
             THEN LET backup == adeResponse.backupModels[bk]
                      Other(m) == m.id # backup.id
                  IN  [ok |-> TRUE,
                       model |-> toModelInfo(backup),
                       backupModels |->
                           <<toModelInfo(primary)>> \o
                           MapSeq(FilterSeq(adeResponse.backupModels, Other), toModelInfo),
                       isManualSelection |-> FALSE]
             ELSE NoResolution

\* resolveAuto appending the oracle's primary after the other backups when a
\* backup is promoted
resolveAuto_PrimaryLast(adeResponse) ==
    LET primary == adeResponse.primaryModel
        Supported(m) == m.provider \in SUPPORTED_PROVIDERS
        bk == FirstIndex(adeResponse.backupModels, Supported)
    IN  IF Supported(primary)
        THEN [ok |-> TRUE,
              model |-> toModelInfo(primary),
              backupModels |-> MapSeq(adeResponse.backupModels, toModelInfo),
              isManualSelection |-> FALSE]
        ELSE IF bk # 0
             THEN LET backup == adeResponse.backupModels[bk]
                      Other(m) == m.id # backup.id
                  IN  [ok |-> TRUE,
                       model |-> toModelInfo(backup),
                       backupModels |->
                           MapSeq(FilterSeq(adeResponse.backupModels, Other), toModelInfo)
                           \o <<toModelInfo(primary)>>,
                       isManualSelection |-> FALSE]
             ELSE NoResolution

\* resolveModel without a selectedModelId: the oracle's primary, or the first
\* backup on a supported vendor; ok = FALSE stands for the thrown Error
resolveAuto(adeResponse) ==
    LET primary == adeResponse.primaryModel
        Supported(m) == m.provider \in SUPPORTED_PROVIDERS
        bk == FirstIndex(adeResponse.backupModels, Supported)
    IN  IF Supported(primary)
        THEN [ok |-> TRUE,
              model |-> toModelInfo(primary),
              backupModels |-> MapSeq(adeResponse.backupModels, toModelInfo),
              isManualSelection |-> FALSE]
        ELSE IF bk # 0
             THEN LET backup == adeResponse.backupModels[bk]
                      Other(m) == m.id # backup.id
                  IN  [ok |-> TRUE,
                       model |-> toModelInfo(backup),
                       backupModels |->
                           <<toModelInfo(primary)>> \o
                           MapSeq(FilterSeq(adeResponse.backupModels, Other), toModelInfo),
                       isManualSelection |-> FALSE]
             ELSE NoResolution

\* resolveModel taking the manual branch only when the oracle named a model
\* on a supported vendor
resolveModel_ManualNeedsSupported(adeResponse, selectedModelId) ==
    LET allModels == <<adeResponse.primaryModel>> \o adeResponse.backupModels
    IN  IF /\ selectedModelId # NoModelId
           /\ \E i \in 1..Len(allModels) : allModels[i].provider \in SUPPORTED_PROVIDERS
        THEN resolveManual(adeResponse, selectedModelId)
        ELSE resolveAuto(adeResponse)

resolveModel(adeResponse, selectedModelId) ==
    IF selectedModelId # NoModelId
    THEN resolveManual(adeResponse, selectedModelId)
    ELSE resolveAuto(adeResponse)

\* index in backupModels of the model findSupportedBackup returns, 0 for undefined
findSupportedBackup(backupModels) ==
    LET Supported(m) == m.provider \in SUPPORTED_PROVIDERS
    IN  FirstIndex(backupModels, Supported)

(***************************************************************************)
(* providers/base.ts: the uniform events an adapter's stream yields.       *)
(***************************************************************************)
Delta(c) == [type |-> "delta", content |-> c]
Thinking(c) == [type |-> "thinking", content |-> c]
CitationsEv(cs) == [type |-> "citations", citations |-> cs]
ToolUse(tool) == [type |-> "tool_use", tool |-> tool, status |-> "searching"]
DoneEv(u, w) == [type |-> "done", usage |-> u, webSearchUsed |-> w]
ErrorEv(msg) == [type |-> "error", error |-> msg]

ZeroUsage ==
    [inputTokens |-> 0, outputTokens |-> 0, reasoningTokens |-> 0, cachedTokens |-> 0,
     webSearchRequests |-> 0]

\* the usage snapshot a vendor reports at the end of a generation
VendorUsage(vendor) ==
    IF vendor = "openai"
    THEN [inputTokens |-> 10, outputTokens |-> 2, reasoningTokens |-> 1, cachedTokens |-> 0,
          webSearchRequests |-> 0]
    ELSE [inputTokens |-> 20, outputTokens |-> 5, reasoningTokens |-> 0, cachedTokens |-> 3,
          webSearchRequests |-> 0]

\* the text fragment carried by the n-th chunk of a vendor stream
Texts == <<"a", "b", "c", "d">>
ChunkText(n) == Texts[((n - 1) % Len(Texts)) + 1]

(***************************************************************************)
(* The adapters' stream generators.  A generator state g records the       *)
(* vendor, the position in the generator body, the number of vendor chunks *)
(* read and the citations collected so far.  XNext(g) is the set of        *)
(* outcomes of one next() call: a yielded event, a return, or a throw.     *)
(***************************************************************************)
NewGen(vendor) ==
    [vendor |-> vendor, phase |-> IF vendor = "anthropic" THEN "loop" ELSE "create",
     n |-> 0, cites |-> <<>>, wsr |-> 0]
Ended(g) == [vendor |-> g.vendor, phase |-> "ended", n |-> 0, cites |-> <<>>, wsr |-> 0]
NoGen == [vendor |-> "", phase |-> "ended", n |-> 0, cites |-> <<>>, wsr |-> 0]

Yield(ev, g) == [kind |-> "yield", ev |-> ev, g |-> g]
Return(g) == [kind |-> "return", ev |-> ErrorEv(""), g |-> Ended(g)]
Throw(g) == [kind |-> "throw", ev |-> ErrorEv("vendor error"), g |-> Ended(g)]

\* OpenAIProvider.stream: the for-await loop over the Responses API events
RECURSIVE OpenAILoop(_)
OpenAILoop(g) ==
    LET g1 == [g EXCEPT !.n = g.n + 1, !.phase = "loop"]
        Completed(new) ==
            LET cs == g.cites \o new
            IN  IF Len(cs) > 0
                THEN Yield(CitationsEv(cs), [g1 EXCEPT !.cites = cs, !.phase = "completed"])
                ELSE Yield(DoneEv(VendorUsage("openai"), FALSE), g1)
    IN  { Throw(g), Return(g) } \cup
        IF g.n < MaxChunks
        THEN { Yield(Delta(t), g1) : t \in {ChunkText(g.n + 1), ""} }
             \cup { Yield(Thinking(ChunkText(g.n + 1)), g1) }
             \cup { Completed(new) : new \in { <<>>, <<"u1">> } }
             \cup OpenAILoop(g1)
        ELSE {}

OpenAINext(g) ==
    CASE g.phase = "create" -> { Throw(g) } \cup OpenAILoop(g)
      [] g.phase = "loop" -> OpenAILoop(g)
      [] g.phase = "completed" ->
            { Yield(DoneEv(VendorUsage("openai"), FALSE), [g EXCEPT !.phase = "loop"]) }
      [] OTHER -> { Return(g) }

\* AnthropicProvider.stream: what follows the for-await loop
AnthropicFinal(g) ==
    LET Final(new, wsr) ==
            LET u == [VendorUsage("anthropic") EXCEPT !.webSearchRequests = wsr]
            IN  IF Len(new) > 0
                THEN Yield(CitationsEv(new), [g EXCEPT !.cites = new, !.phase = "final", !.wsr = wsr])
                ELSE Yield(DoneEv(u, wsr > 0), [g EXCEPT !.phase = "finished"])
    IN  { Throw(g) } \cup { Final(<<>>, 0), Final(<<"u1">>, 1) }

RECURSIVE AnthropicLoop(_)
AnthropicLoop(g) ==
    LET g1 == [g EXCEPT !.n = g.n + 1]
    IN  { Throw(g) } \cup AnthropicFinal(g) \cup
        IF g.n < MaxChunks
        THEN { Yield(Delta(t), g1) : t \in {ChunkText(g.n + 1), ""} }
             \cup { Yield(Thinking(ChunkText(g.n + 1)), g1) }
             \cup { Yield(ToolUse("web_search"), g1) }
             \cup AnthropicLoop(g1)
        ELSE {}

AnthropicNext(g) ==
    CASE g.phase = "loop" -> AnthropicLoop(g)
      [] g.phase = "final" ->
            { Yield(DoneEv([VendorUsage("anthropic") EXCEPT !.webSearchRequests = g.wsr], TRUE),
                    [g EXCEPT !.phase = "finished"]) }
      [] OTHER -> { Return(g) }

AdapterNext(g) ==
    IF g.vendor = "anthropic" THEN AnthropicNext(g) ELSE OpenAINext(g)

(***************************************************************************)
(* The state of one chat request (POST /api/chat) and of its environment.  *)
(***************************************************************************)
VARIABLES
    pc,               \* position of the request handler
    request,          \* the inbound request: its route parameters and JSON body
    ade,              \* the oracle's response to callADE
    selectedModelId,  \* chatReq.selectedModelId, NoModelId when absent
    conversationId,   \* handleChat's conversationId
    subConversationId,\* chatReq.subConversationId, NoSubConversation when absent
    history,          \* the result of fetchConversationHistory
    env,              \* vendors whose API key is set in process.env
    providerCache,    \* providers/index.ts providerCache: the cached adapter instances
    providerName,     \* the argument of the last getProvider call
    returnedProvider, \* the adapter the last getProvider call returned
    writer,           \* state of the SSE writer: "open", "errored" (client gone), "closed"
    closeCalls,       \* number of writer.close() invocations
    out,              \* events whose write to the writer resolved, in order
    resolved,         \* result of resolveModel
    attempts,         \* one record per streamFromProvider call: model and status
    gen,              \* the adapter stream generator of the running attempt
    pulled,           \* events the running attempt pulled from the adapter, in order
    pending,          \* the outward event streamFromProvider is about to send
    acc,              \* content, thinkingContent, citations, usage, webSearchUsed
    apiCallLogs,      \* the in-memory apiCallLogs array
    db                \* record store: messages, routing_logs, api_call_logs

vars == <<pc, request, ade, selectedModelId, conversationId, subConversationId, history, env, providerCache, providerName, returnedProvider, writer, closeCalls, out, resolved,
          attempts, gen, pulled, pending, acc, apiCallLogs, db>>

MessageId == "m1"

\* chatReq.subConversationId absent; sub_conversation_id null
NoSubConversation == ""

\* the tables of the record store
EmptyStore ==
    [conversations |-> {}, messages |-> <<>>, sub_conversations |-> {},
     routing_logs |-> <<>>, api_call_logs |-> <<>>]

\* no request: the specifications that apply one function to drawn inputs
NoRequest == [route |-> "none"]

\* conversationId before handleChat assigned it; chatReq.conversationId absent
NoConversation == ""

\* JSON values of a request body: a field that is absent, a string, a number
Undefined == [type |-> "undefined", value |-> ""]
String(v) == [type |-> "string", value |-> v]
Number(v) == [type |-> "number", value |-> v]

\* the body request.json() gives: an object with its fields; "null" and
\* "string" stand for bodies that are not objects, "malformed" for a body
\* request.json() throws on
ChatBody(kind, message, convId, subConvId) ==
    [route |-> "chat", kind |-> kind, message |-> message,
     conversationId |-> convId, subConversationId |-> subConvId]

\* the rows a record store holds before the request: two conversations, a
\* message of the first and two sub-conversations opened on that message
SeededStore ==
    [EmptyStore EXCEPT
        !.conversations = { [id |-> "c1", updated_at |-> 0], [id |-> "c2", updated_at |-> 0] },
        !.messages = << [id |-> "m0", conversation_id |-> "c1", sub_conversation_id |-> "",
                         role |-> "user", content |-> "question", created_at |-> 1] >>,
        !.sub_conversations =
            { [id |-> "s1", conversation_id |-> "c1", parent_message_id |-> "m0",
               highlighted_text |-> "quantum tunnelling"],
              [id |-> "s2", conversation_id |-> "c1", parent_message_id |-> "m0",
               highlighted_text |-> "wave function"] }]

\* the chat request of Spec: a first message, without a conversationId
FirstMessage == ChatBody("object", String(" hello "), Undefined, Undefined)

\* no adapter instance
NoProvider == [vendor |-> "", serial |-> 0]

EmptyAcc ==
    [content |-> "", thinkingContent |-> "", citations |-> <<>>, usage |-> ZeroUsage,
     webSearchUsed |-> FALSE]

NoEvent == [type |-> "none"]

ErrorSSE(code) == [type |-> "error", code |-> code]

\* vendors of the catalogue that have an adapter: the API keys that matter
KeyedVendors == { m.provider : m \in Catalogue } \cap SUPPORTED_PROVIDERS

Init ==
    /\ pc = "handleChat"
    /\ request = FirstMessage
    /\ db = EmptyStore
    /\ ade \in ADEResponses
    /\ selectedModelId \in SelectedIds
    /\ env \in SUBSET KeyedVendors
    /\ providerCache = {}
    /\ providerName = ""
    /\ returnedProvider = NoProvider
    /\ writer = "open"
    /\ closeCalls = 0
    /\ out = <<>>
    /\ resolved = NoResolution
    /\ attempts = <<>>
    /\ gen = NoGen
    /\ pulled = <<>>
    /\ pending = NoEvent
    /\ acc = EmptyAcc
    /\ apiCallLogs = <<>>
    /\ conversationId = NoConversation
    /\ subConversationId = NoSubConversation
    /\ history = <<>>

(***************************************************************************)
(* config/models.ts and cost.ts.  Rates are in thousandths of a dollar per *)
(* million tokens, so a rate of r charges r billionths of a dollar per     *)
(* token; calculateCost returns millionths of a dollar.                    *)
(***************************************************************************)
Pricing(i, o) == [inputPerMillion |-> i, outputPerMillion |-> o]

\* entries of MODEL_PRICING, in the order of the table
MODEL_PRICING ==
    << [key |-> "gpt-5", pricing |-> Pricing(1250, 10000)],
       [key |-> "gpt-4.1", pricing |-> Pricing(2000, 8000)],
       [key |-> "gpt-4o", pricing |-> Pricing(2500, 10000)],
       [key |-> "gpt-4o-mini", pricing |-> Pricing(150, 600)],
       [key |-> "o3", pricing |-> Pricing(2000, 8000)],
       [key |-> "claude-sonnet-4-6", pricing |-> Pricing(3000, 15000)],
       [key |-> "gemini-2.5-pro", pricing |-> Pricing(1250, 10000)],
       [key |-> "gemini-2.5-flash-lite", pricing |-> Pricing(25, 100)],
       [key |-> "sonar", pricing |-> Pricing(1000, 1000)],
       [key |-> "sonar-pro", pricing |-> Pricing(3000, 15000)] >>

PROVIDER_DEFAULTS(provider) ==
    CASE provider = "openai" -> Pricing(2000, 8000)
      [] provider = "anthropic" -> Pricing(3000, 15000)
      [] provider = "google" -> Pricing(1250, 10000)
      [] provider = "perplexity" -> Pricing(1000, 1000)
      [] OTHER -> Pricing(2000, 10000)

\* String.prototype.includes, for a non-empty key
includes(s, key) ==
    LET c == Chars(s)
        q == Chars(key)
    IN  \E i \in 1..Len(c) : i + Len(q) - 1 <= Len(c) /\ SubSeq(c, i, i + Len(q) - 1) = q

\* the exact entry, else the first entry whose key the id starts with or
\* includes, else the default of the vendor
getModelPricing(modelId, provider) ==
    LET Exact(e) == e.key = modelId
        Partial(e) == startsWith(modelId, e.key) \/ includes(modelId, e.key)
    IN  IF FirstIndex(MODEL_PRICING, Exact) # 0
        THEN MODEL_PRICING[FirstIndex(MODEL_PRICING, Exact)].pricing
        ELSE IF FirstIndex(MODEL_PRICING, Partial) # 0
        THEN MODEL_PRICING[FirstIndex(MODEL_PRICING, Partial)].pricing
        ELSE PROVIDER_DEFAULTS(provider)

\* WEB_SEARCH_COST_PER_REQUEST, in billionths of a dollar
WEB_SEARCH_COST_PER_REQUEST(provider) ==
    CASE provider = "anthropic" -> 10000000
      [] provider = "google" -> 35000000
      [] OTHER -> 0

calculateWebSearchCost(provider, requestCount) ==
    IF requestCount = 0 THEN 0
    ELSE requestCount * WEB_SEARCH_COST_PER_REQUEST(provider)

\* parseFloat(x.toFixed(6)): billionths rounded to the nearest millionth,
\* the larger one when two are as near
toFixed6(billionths) == (billionths + 500) \div 1000

\* calculateCost charging the reasoning tokens at the input rate
calculateCost_ReasoningAtInputRate(provider, modelId, usage) ==
    LET pricing == getModelPricing(modelId, provider)
    IN  toFixed6(usage.inputTokens * pricing.inputPerMillion
                 + usage.outputTokens * pricing.outputPerMillion
                 + usage.reasoningTokens * pricing.inputPerMillion
                 + calculateWebSearchCost(provider, usage.webSearchRequests))

calculateCost(provider, modelId, usage) ==
    LET pricing == getModelPricing(modelId, provider)
        inputCost == usage.inputTokens * pricing.inputPerMillion
        outputCost == usage.outputTokens * pricing.outputPerMillion
        reasoningCost == usage.reasoningTokens * pricing.outputPerMillion
        webSearchCost == calculateWebSearchCost(provider, usage.webSearchRequests)
    IN  toFixed6(inputCost + outputCost + reasoningCost + webSearchCost)

(***************************************************************************)
(* stream/normalizer.ts and the SSE writer.                                *)
(***************************************************************************)
\* writer.write resolves only while the stream is open; once the client has
\* gone (errored) or the writer was closed, it rejects
WriteResolves == writer = "open"

\* sendSSE followed by the code at okPc, or by the handler at throwPc when
\* the write rejects; only pc and out are set here
sendSSE(event, okPc, throwPc) ==
    IF WriteResolves
    THEN out' = Append(out, event) /\ pc' = okPc
    ELSE out' = out /\ pc' = throwPc

\* writer.close(): resolves on an open writer, rejects otherwise
closeWriter(okPc, throwPc) ==
    /\ closeCalls' = closeCalls + 1
    /\ IF writer = "open"
       THEN writer' = "closed" /\ pc' = okPc
       ELSE writer' = writer /\ pc' = throwPc

\* the client closes the connection: the readable side is cancelled and the
\* writer becomes errored
ClientDisconnect ==
    /\ writer = "open"
    /\ pc # "finished"
    /\ writer' = "errored"
    /\ UNCHANGED <<pc, request, ade, selectedModelId, conversationId, subConversationId, history,
                   env, providerCache, providerName, returnedProvider, closeCalls, out, resolved,
                   attempts, gen, pulled, pending, acc, apiCallLogs, db>>

(***************************************************************************)
(* route.ts: handleChat up to the routing decision.                        *)
(***************************************************************************)
\* created_at of a row inserted now: the rows of the table are stamped in
\* the order of their insertion
Now(store) == Len(store.messages) + 1

\* saveUserMessage: the row inserted in messages
UserMessage(id, convId, content, subConvId, at) ==
    [id |-> id, conversation_id |-> convId, sub_conversation_id |-> subConvId,
     role |-> "user", content |-> content, created_at |-> at]

\* .order("created_at", { ascending: true })
RECURSIVE orderByCreatedAt(_)
orderByCreatedAt(rows) ==
    IF rows = <<>> THEN <<>>
    ELSE LET rest == orderByCreatedAt(Tail(rows))
             row == Head(rows)
             k == Cardinality({ i \in 1..Len(rest) : rest[i].created_at < row.created_at })
         IN  SubSeq(rest, 1, k) \o <<row>> \o SubSeq(rest, k + 1, Len(rest))

\* .limit(n): the first n rows of the ordered result
limit(rows, n) == SubSeq(rows, 1, IF Len(rows) < n THEN Len(rows) ELSE n)

HISTORY_LIMIT == 20

\* the select of highlighted_text from sub_conversations by id; its error is
\* not read, so a failed select and a missing row both give no data
selectHighlightedText(store, subConvId, ok) ==
    IF ok /\ \E r \in store.sub_conversations : r.id = subConvId
    THEN [found |-> TRUE,
          highlighted_text |->
              (CHOOSE r \in store.sub_conversations : r.id = subConvId).highlighted_text]
    ELSE [found |-> FALSE, highlighted_text |-> ""]

\* the system message carrying the highlighted text
ContextMessage(highlighted_text) ==
    [role |-> "system",
     content |-> <<"The user is asking a follow-up question about this specific text they highlighted from a previous response:",
                   highlighted_text,
                   "Respond in the context of this highlighted text.">>]

ConversationMessage(msg) == [role |-> msg.role, content |-> msg.content]

\* fetchConversationHistory with the main-thread query not restricted to
\* rows whose sub_conversation_id is null
fetchConversationHistory_AllOfConversation(store, convId, subConvId, subConv) ==
    IF subConvId # NoSubConversation
    THEN LET contextMessages ==
                 IF subConv.found /\ subConv.highlighted_text # ""
                 THEN <<ContextMessage(subConv.highlighted_text)>> ELSE <<>>
             OfSub(m) == m.sub_conversation_id = subConvId
             data == limit(orderByCreatedAt(FilterSeq(store.messages, OfSub)), HISTORY_LIMIT)
         IN  contextMessages \o MapSeq(data, ConversationMessage)
    ELSE LET OfMain(m) == m.conversation_id = convId
             data == limit(orderByCreatedAt(FilterSeq(store.messages, OfMain)), HISTORY_LIMIT)
         IN  MapSeq(data, ConversationMessage)

\* fetchConversationHistory, given the result subConv of the select of the
\* highlighted text; the messages queries are
\* .eq(...).order("created_at", { ascending: true }).limit(20)
fetchConversationHistory(store, convId, subConvId, subConv) ==
    IF subConvId # NoSubConversation
    THEN LET contextMessages ==
                 IF subConv.found /\ subConv.highlighted_text # ""
                 THEN <<ContextMessage(subConv.highlighted_text)>> ELSE <<>>
             OfSub(m) == m.sub_conversation_id = subConvId
             data == limit(orderByCreatedAt(FilterSeq(store.messages, OfSub)), HISTORY_LIMIT)
         IN  contextMessages \o MapSeq(data, ConversationMessage)
    ELSE LET OfMain(m) ==
                 m.conversation_id = convId /\ m.sub_conversation_id = NoSubConversation
             data == limit(orderByCreatedAt(FilterSeq(store.messages, OfMain)), HISTORY_LIMIT)
         IN  MapSeq(data, ConversationMessage)

\* the unsupported-task test requiring fallback.supported as well
UnsupportedTask_Supported(adeResponse) ==
    /\ adeResponse.fallback.present
    /\ adeResponse.fallback.supported
    /\ adeResponse.fallback.message # ""

\* step 7: adeResponse.fallback && adeResponse.fallback.message
UnsupportedTask(adeResponse) ==
    adeResponse.fallback.present /\ adeResponse.fallback.message # ""

UnsupportedTaskSSE ==
    [type |-> "error", code |-> "UNSUPPORTED_TASK", message |-> ade.fallback.message,
     category |-> ade.fallback.category,
     suggestedPlatforms |-> ade.fallback.suggestedPlatforms]

\* String.prototype.trim, on the message texts of the model
trim(v) ==
    CASE v = " hello " -> "hello"
      [] v = "   " -> ""
      [] OTHER -> v

\* validateChatRequest testing the message for emptiness before trimming
\* only
validateChatRequest_BlankAccepted(body) ==
    LET StringOr(field, default) == IF field.type = "string" THEN field.value ELSE default
        Rejected == [ok |-> FALSE, message |-> "", conversationId |-> NoConversation,
                     subConversationId |-> NoSubConversation]
    IN  IF body.kind # "object" THEN Rejected
        ELSE IF body.message.type # "string" \/ body.message.value = ""
        THEN Rejected
        ELSE [ok |-> TRUE, message |-> trim(body.message.value),
              conversationId |-> StringOr(body.conversationId, NoConversation),
              subConversationId |-> StringOr(body.subConversationId, NoSubConversation)]

\* validateChatRequest: ok = FALSE stands for the thrown Error; a field that
\* is not a string is dropped
validateChatRequest(body) ==
    LET StringOr(field, default) == IF field.type = "string" THEN field.value ELSE default
        Rejected == [ok |-> FALSE, message |-> "", conversationId |-> NoConversation,
                     subConversationId |-> NoSubConversation]
    IN  IF body.kind # "object" THEN Rejected
        ELSE IF body.message.type # "string" \/ body.message.value = ""
                \/ trim(body.message.value) = ""
        THEN Rejected
        ELSE [ok |-> TRUE, message |-> trim(body.message.value),
              conversationId |-> StringOr(body.conversationId, NoConversation),
              subConversationId |-> StringOr(body.subConversationId, NoSubConversation)]

\* validateSubConversation: the conversation_id stored on the row; ok =
\* FALSE stands for the thrown Error (select failed, or no such row)
validateSubConversation(store, subConvId, selectOk) ==
    IF selectOk /\ \E r \in store.sub_conversations : r.id = subConvId
    THEN [ok |-> TRUE,
          conversationId |->
              (CHOOSE r \in store.sub_conversations : r.id = subConvId).conversation_id]
    ELSE [ok |-> FALSE, conversationId |-> NoConversation]

\* randomUUID in getOrCreateConversation: an id no conversation has
NewConversationId == "c3"

\* getOrCreateConversation: with an id, the id when the row exists; without
\* one, a new row; ok = FALSE stands for the thrown Error
getOrCreateConversation(store, convId, storeOk) ==
    IF convId # NoConversation
    THEN IF storeOk /\ \E c \in store.conversations : c.id = convId
         THEN [ok |-> TRUE, conversationId |-> convId, store |-> store]
         ELSE [ok |-> FALSE, conversationId |-> NoConversation, store |-> store]
    ELSE IF storeOk
         THEN [ok |-> TRUE, conversationId |-> NewConversationId,
               store |-> [store EXCEPT !.conversations =
                             @ \cup {[id |-> NewConversationId, updated_at |-> Now(store)]}]]
         ELSE [ok |-> FALSE, conversationId |-> NoConversation, store |-> store]

\* step 2 looking at the conversationId of the body first
conversationOf_BodyFirst(store, chatReq, storeOk) ==
    IF chatReq.conversationId = NoConversation /\ chatReq.subConversationId # NoSubConversation
    THEN LET subConv == validateSubConversation(store, chatReq.subConversationId, storeOk)
         IN  [ok |-> subConv.ok, conversationId |-> subConv.conversationId, store |-> store]
    ELSE getOrCreateConversation(store, chatReq.conversationId, storeOk)

\* handleChat step 2: the conversation of the request
conversationOf(store, chatReq, storeOk) ==
    IF chatReq.subConversationId # NoSubConversation
    THEN LET subConv == validateSubConversation(store, chatReq.subConversationId, storeOk)
         IN  [ok |-> subConv.ok, conversationId |-> subConv.conversationId, store |-> store]
    ELSE getOrCreateConversation(store, chatReq.conversationId, storeOk)

\* steps 1-8: request.json and validateChatRequest, the conversation, the
\* user message, the history, callADE, the unsupported-task check and
\* resolveModel.  Besides the errors thrown for a bad body or a missing row,
\* a step may throw because the store or the oracle fails: at the
\* conversation, at the save of the user message, after the save, or after
\* the history was fetched
Prepare ==
    /\ pc = "handleChat"
    /\ \E failAt \in {"at_conversation", "at_save", "after_save", "after_history", "none"},
          ok \in BOOLEAN :
        LET chatReq == validateChatRequest(request)
            conv == conversationOf(db, chatReq, failAt # "at_conversation")
            entered == chatReq.ok /\ conv.ok
            saved == entered /\ failAt # "at_save"
            fetched == saved /\ failAt # "after_save"
        IN  /\ conversationId' = IF entered THEN conv.conversationId ELSE conversationId
            /\ subConversationId' = IF entered THEN chatReq.subConversationId
                                    ELSE subConversationId
            /\ db' = IF ~entered THEN db
                     ELSE IF ~saved THEN conv.store
                     ELSE [conv.store EXCEPT !.messages =
                              Append(@, UserMessage("u1", conv.conversationId,
                                                    chatReq.message,
                                                    chatReq.subConversationId,
                                                    Now(conv.store)))]
            /\ history' = IF ~fetched THEN history
                          ELSE fetchConversationHistory(db', conversationId',
                                   subConversationId',
                                   selectHighlightedText(db', subConversationId', ok))
            /\ IF ~fetched \/ failAt # "none"
               THEN pc' = "catch_send" /\ resolved' = resolved
               ELSE IF UnsupportedTask(ade)
                    THEN pc' = "send_unsupported" /\ resolved' = resolved
                    ELSE /\ resolved' = resolveModel(ade, selectedModelId)
                         /\ pc' = IF resolved'.ok THEN "send_routing" ELSE "send_no_provider"
    /\ UNCHANGED <<request, ade, selectedModelId,
                   env, providerCache, providerName, returnedProvider, writer, closeCalls, out,
                   attempts, gen, pulled, pending, acc, apiCallLogs>>

SendUnsupported ==
    /\ pc = "send_unsupported"
    /\ sendSSE(UnsupportedTaskSSE, "close_unsupported", "catch_send")
    /\ UNCHANGED <<request, ade, selectedModelId, conversationId, subConversationId, history,
                   env, providerCache, providerName, returnedProvider, writer, closeCalls, resolved,
                   attempts, gen, pulled, pending, acc, apiCallLogs, db>>

CloseUnsupported ==
    /\ pc = "close_unsupported"
    /\ closeWriter("finished", "catch_send")
    /\ UNCHANGED <<request, ade, selectedModelId, conversationId, subConversationId, history,
                   env, providerCache, providerName, returnedProvider, out, resolved,
                   attempts, gen, pulled, pending, acc, apiCallLogs, db>>

\* SendNoProvider without the close and return that follow the error event
SendNoProvider_NoReturn ==
    /\ pc = "send_no_provider"
    /\ sendSSE(ErrorSSE("NO_PROVIDER"), "send_routing", "catch_send")
    /\ UNCHANGED <<request, ade, selectedModelId, conversationId, subConversationId, history,
                   env, providerCache, providerName, returnedProvider, writer, closeCalls, resolved,
                   attempts, gen, pulled, pending, acc, apiCallLogs, db>>

SendNoProvider ==
    /\ pc = "send_no_provider"
    /\ sendSSE(ErrorSSE("NO_PROVIDER"), "close_no_provider", "catch_send")
    /\ UNCHANGED <<request, ade, selectedModelId, conversationId, subConversationId, history,
                   env, providerCache, providerName, returnedProvider, writer, closeCalls, resolved,
                   attempts, gen, pulled, pending, acc, apiCallLogs, db>>

CloseNoProvider ==
    /\ pc = "close_no_provider"
    /\ closeWriter("finished", "catch_send")
    /\ UNCHANGED <<request, ade, selectedModelId, conversationId, subConversationId, history,
                   env, providerCache, providerName, returnedProvider, out, resolved,
                   attempts, gen, pulled, pending, acc, apiCallLogs, db>>

(***************************************************************************)
(* route.ts: streamFromProvider and the fallback logic of handleChat.      *)
(***************************************************************************)
\* the backup handleChat retries with (step 12)
Backup == resolved.backupModels[findSupportedBackup(resolved.backupModels)]

\* AfterAttempt retrying after every failed attempt, not only the primary
AfterAttempt_Cascade(n, success) ==
    IF success THEN "finalize_insert"
    ELSE IF findSupportedBackup(resolved.backupModels) # 0
         THEN "send_retry"
         ELSE "send_provider_error"

\* AfterAttempt finalizing the backup attempt without testing its success
AfterAttempt_FinalizeBackup(n, success) ==
    IF n = 1
    THEN IF success THEN "finalize_insert"
         ELSE IF findSupportedBackup(resolved.backupModels) # 0
              THEN "send_retry"
              ELSE "send_provider_error"
    ELSE "finalize_insert"

\* where handleChat continues when the n-th streamFromProvider call returns
AfterAttempt(n, success) ==
    IF n = 1
    THEN IF success THEN "finalize_insert"
         ELSE IF findSupportedBackup(resolved.backupModels) # 0
              THEN "send_retry"
              ELSE "send_provider_error"
    ELSE IF success THEN "finalize_insert" ELSE "send_all_failed"

ApiCallLog(m, statusCode, errorMessage) ==
    [provider |-> m.provider, modelId |-> m.id, statusCode |-> statusCode,
     errorMessage |-> errorMessage]

\* the messages of the errors streamFromProvider catches
NoError == ""
UnsupportedProviderError == "Unsupported provider"
MissingKeyError == "Missing API key"
VendorError == "vendor error"
WriteRejected == "write rejected"

\* providers/index.ts.  An adapter instance is known by its vendor and by
\* the order of its construction; name is the argument of getProvider.  The
\* result is the error thrown (NoError when the call returns), the adapter
\* returned and the cache after the call.
GetProviderResult(error, instance, cache) ==
    [error |-> error, provider |-> instance, cache |-> cache]

\* getProvider without the look-up in providerCache
getProvider_AlwaysConstructs(name) ==
    IF name \notin SUPPORTED_PROVIDERS
    THEN GetProviderResult(UnsupportedProviderError, NoProvider, providerCache)
    ELSE IF name \notin env
    THEN GetProviderResult(MissingKeyError, NoProvider, providerCache)
    ELSE LET new == [vendor |-> name, serial |-> Cardinality(providerCache) + 1]
         IN  GetProviderResult(NoError, new,
                   {a \in providerCache : a.vendor # name} \cup {new})

\* getProvider: the cached adapter if there is one; else the switch on the
\* name, where the adapter's constructor throws when the API key of the
\* vendor is not set and the default case throws Unsupported provider
getProvider(name) ==
    IF \E a \in providerCache : a.vendor = name
    THEN GetProviderResult(NoError, CHOOSE a \in providerCache : a.vendor = name,
                           providerCache)
    ELSE IF name \notin SUPPORTED_PROVIDERS
    THEN GetProviderResult(UnsupportedProviderError, NoProvider, providerCache)
    ELSE IF name \notin env
    THEN GetProviderResult(MissingKeyError, NoProvider, providerCache)
    ELSE LET new == [vendor |-> name, serial |-> Cardinality(providerCache) + 1]
         IN  GetProviderResult(NoError, new,
                   {a \in providerCache : a.vendor # name} \cup {new})

\* streamFromProvider returns: the api call log entry is pushed and the
\* caller continues
AttemptReturns(success, error) ==
    LET n == Len(attempts)
    IN  /\ attempts' = [attempts EXCEPT ![n].status = IF success THEN "success" ELSE "failed",
                                        ![n].error = error]
        /\ apiCallLogs' = Append(apiCallLogs,
                                 ApiCallLog(attempts[n].model, IF success THEN 200 ELSE 500,
                                            error))
        /\ gen' = Ended(gen)
        /\ pending' = NoEvent
        /\ pc' = AfterAttempt(n, success)

\* streamFromProvider with the vendor check and getProvider before its try
\* block: their errors leave the function as exceptions
BeginAttempt_ConstructOutsideTry(m) ==
    LET n == Len(attempts) + 1
        supported == m.provider \in SUPPORTED_PROVIDERS
        got == getProvider(m.provider)
        started == supported /\ got.error = NoError
        error == IF supported THEN got.error ELSE UnsupportedProviderError
    IN  /\ acc' = EmptyAcc
        /\ pulled' = <<>>
        /\ pending' = NoEvent
        /\ IF started
           THEN /\ attempts' = Append(attempts, [model |-> m, status |-> "running",
                                                 error |-> NoError])
                /\ providerCache' = got.cache
                /\ providerName' = m.provider
                /\ returnedProvider' = got.provider
                /\ gen' = NewGen(m.provider)
                /\ apiCallLogs' = apiCallLogs
                /\ pc' = "stream_pull"
           ELSE /\ attempts' = Append(attempts, [model |-> m, status |-> "failed",
                                                 error |-> error])
                /\ providerCache' = providerCache
                /\ providerName' = IF supported THEN m.provider ELSE providerName
                /\ returnedProvider' = returnedProvider
                /\ gen' = NoGen
                /\ apiCallLogs' = apiCallLogs
                /\ pc' = "catch_send"

\* streamFromProvider with buffers that outlive the call
BeginAttempt_SharedBuffers(m) ==
    LET n == Len(attempts) + 1
        supported == m.provider \in SUPPORTED_PROVIDERS
        got == getProvider(m.provider)
        started == supported /\ got.error = NoError
        error == IF supported THEN got.error ELSE UnsupportedProviderError
    IN  /\ acc' = acc
        /\ pulled' = <<>>
        /\ pending' = NoEvent
        /\ IF started
           THEN /\ attempts' = Append(attempts, [model |-> m, status |-> "running",
                                                 error |-> NoError])
                /\ providerCache' = got.cache
                /\ providerName' = m.provider
                /\ returnedProvider' = got.provider
                /\ gen' = NewGen(m.provider)
                /\ apiCallLogs' = apiCallLogs
                /\ pc' = "stream_pull"
           ELSE /\ attempts' = Append(attempts, [model |-> m, status |-> "failed",
                                                 error |-> error])
                /\ providerCache' = providerCache
                /\ providerName' = IF supported THEN m.provider ELSE providerName
                /\ returnedProvider' = returnedProvider
                /\ gen' = NoGen
                /\ apiCallLogs' = Append(apiCallLogs, ApiCallLog(m, 500, error))
                /\ pc' = AfterAttempt(n, FALSE)

\* streamFromProvider up to its first await: fresh buffers, the vendor check,
\* getProvider and provider.stream
BeginAttempt(m) ==
    LET n == Len(attempts) + 1
        supported == m.provider \in SUPPORTED_PROVIDERS
        got == getProvider(m.provider)
        started == supported /\ got.error = NoError
        error == IF supported THEN got.error ELSE UnsupportedProviderError
    IN  /\ acc' = EmptyAcc
        /\ pulled' = <<>>
        /\ pending' = NoEvent
        /\ IF started
           THEN /\ attempts' = Append(attempts, [model |-> m, status |-> "running",
                                                 error |-> NoError])
                /\ providerCache' = got.cache
                /\ providerName' = m.provider
                /\ returnedProvider' = got.provider
                /\ gen' = NewGen(m.provider)
                /\ apiCallLogs' = apiCallLogs
                /\ pc' = "stream_pull"
           ELSE /\ attempts' = Append(attempts, [model |-> m, status |-> "failed",
                                                 error |-> error])
                /\ providerCache' = providerCache
                /\ providerName' = IF supported THEN m.provider ELSE providerName
                /\ returnedProvider' = returnedProvider
                /\ gen' = NoGen
                /\ apiCallLogs' = Append(apiCallLogs, ApiCallLog(m, 500, error))
                /\ pc' = AfterAttempt(n, FALSE)

\* step 11: the routing event, then the primary attempt starts
SendRouting ==
    /\ pc = "send_routing"
    /\ IF WriteResolves
       THEN /\ out' = Append(out, [type |-> "routing", conversationId |-> conversationId,
                                   subConversationId |-> subConversationId,
                                   messageId |-> MessageId,
                                   model |-> resolved.model,
                                   backupModels |-> resolved.backupModels,
                                   isManualSelection |-> resolved.isManualSelection])
            /\ BeginAttempt(resolved.model)
       ELSE /\ pc' = "catch_send"
            /\ UNCHANGED <<out, providerCache, providerName, returnedProvider, attempts, gen, pulled, pending, acc, apiCallLogs>>
    /\ UNCHANGED <<request, ade, selectedModelId, conversationId, subConversationId, history,
                   env, writer, closeCalls, resolved, db>>

\* Outward without the tool_use case
Outward_DropToolUse(event) ==
    CASE event.type \in {"delta", "thinking"} ->
            IF event.content # "" THEN [type |-> event.type, content |-> event.content]
            ELSE NoEvent
      [] event.type = "citations" -> [type |-> "citations", sources |-> event.citations]
      [] OTHER -> NoEvent

\* the outward event streamFromProvider sends for an adapter event, NoEvent
\* when it sends none
Outward(event) ==
    CASE event.type \in {"delta", "thinking"} ->
            IF event.content # "" THEN [type |-> event.type, content |-> event.content]
            ELSE NoEvent
      [] event.type = "citations" -> [type |-> "citations", sources |-> event.citations]
      [] event.type = "tool_use" ->
            [type |-> "tool_use", tool |-> event.tool, status |-> event.status]
      [] OTHER -> NoEvent

\* the buffers after the switch statement handled an adapter event
Accumulate(a, event) ==
    CASE event.type = "delta" /\ event.content # "" ->
            [a EXCEPT !.content = @ \o event.content]
      [] event.type = "thinking" /\ event.content # "" ->
            [a EXCEPT !.thinkingContent = @ \o event.content]
      [] event.type = "citations" -> [a EXCEPT !.citations = @ \o event.citations]
      [] event.type = "done" ->
            [a EXCEPT !.usage = event.usage,
                      !.webSearchUsed = @ \/ event.webSearchUsed]
      [] OTHER -> a

\* one iteration of the for-await loop: the next adapter event is pulled
\* and handled up to the sendSSE call
StreamPull ==
    /\ pc = "stream_pull"
    /\ \E o \in AdapterNext(gen) :
        \/ /\ o.kind = "yield"
           /\ pulled' = Append(pulled, o.ev)
           /\ IF o.ev.type = "error"
              THEN /\ acc' = acc
                   /\ AttemptReturns(FALSE, o.ev.error)
              ELSE /\ acc' = Accumulate(acc, o.ev)
                   /\ gen' = o.g
                   /\ pending' = Outward(o.ev)
                   /\ pc' = IF pending' # NoEvent THEN "stream_forward" ELSE "stream_pull"
                   /\ UNCHANGED <<attempts, apiCallLogs>>
        \/ /\ o.kind = "return"
           /\ AttemptReturns(TRUE, NoError)
           /\ UNCHANGED <<pulled, acc>>
        \/ /\ o.kind = "throw"
           /\ AttemptReturns(FALSE, VendorError)
           /\ UNCHANGED <<pulled, acc>>
    /\ UNCHANGED <<request, ade, selectedModelId, conversationId, subConversationId, history,
                   env, providerCache, providerName, returnedProvider, writer, closeCalls, out,
                   resolved, db>>

\* the sendSSE call inside the loop; a rejected write is caught by the
\* try/catch of streamFromProvider
StreamForward ==
    /\ pc = "stream_forward"
    /\ IF WriteResolves
       THEN /\ out' = Append(out, pending)
            /\ pending' = NoEvent
            /\ pc' = "stream_pull"
            /\ UNCHANGED <<attempts, gen, apiCallLogs>>
       ELSE /\ out' = out
            /\ AttemptReturns(FALSE, WriteRejected)
    /\ UNCHANGED <<request, ade, selectedModelId, conversationId, subConversationId, history,
                   env, providerCache, providerName, returnedProvider, writer, closeCalls, resolved,
                   pulled, acc, db>>

\* SendRetry announcing the backup with a second routing event
SendRetry_Rerouted ==
    /\ pc = "send_retry"
    /\ IF WriteResolves
       THEN /\ out' = out \o << ErrorSSE("PROVIDER_RETRY"),
                                [type |-> "routing", conversationId |-> conversationId,
                                   subConversationId |-> subConversationId,
                                   messageId |-> MessageId,
                                 model |-> Backup,
                                 backupModels |-> resolved.backupModels,
                                 isManualSelection |-> resolved.isManualSelection] >>
            /\ BeginAttempt(Backup)
       ELSE /\ pc' = "catch_send"
            /\ UNCHANGED <<out, providerCache, providerName, returnedProvider, attempts, gen, pulled, pending, acc, apiCallLogs>>
    /\ UNCHANGED <<request, ade, selectedModelId, conversationId, subConversationId, history,
                   env, writer, closeCalls, resolved, db>>

\* the retry notice, then the backup attempt starts
SendRetry ==
    /\ pc = "send_retry"
    /\ IF WriteResolves
       THEN /\ out' = Append(out, ErrorSSE("PROVIDER_RETRY"))
            /\ BeginAttempt(Backup)
       ELSE /\ pc' = "catch_send"
            /\ UNCHANGED <<out, providerCache, providerName, returnedProvider, attempts, gen, pulled, pending, acc, apiCallLogs>>
    /\ UNCHANGED <<request, ade, selectedModelId, conversationId, subConversationId, history,
                   env, writer, closeCalls, resolved, db>>

\* SendAllFailed without the close and return that follow the error event
SendAllFailed_NoReturn ==
    /\ pc = "send_all_failed"
    /\ sendSSE(ErrorSSE("ALL_PROVIDERS_FAILED"), "finalize_insert", "catch_send")
    /\ UNCHANGED <<request, ade, selectedModelId, conversationId, subConversationId, history,
                   env, providerCache, providerName, returnedProvider, writer, closeCalls, resolved,
                   attempts, gen, pulled, pending, acc, apiCallLogs, db>>

SendAllFailed ==
    /\ pc = "send_all_failed"
    /\ sendSSE(ErrorSSE("ALL_PROVIDERS_FAILED"), "close_all_failed", "catch_send")
    /\ UNCHANGED <<request, ade, selectedModelId, conversationId, subConversationId, history,
                   env, providerCache, providerName, returnedProvider, writer, closeCalls, resolved,
                   attempts, gen, pulled, pending, acc, apiCallLogs, db>>

\* CloseAllFailed deleting the user message of the failed request
CloseAllFailed_RollsBack ==
    /\ pc = "close_all_failed"
    /\ closeWriter("finished", "catch_send")
    /\ db' = [db EXCEPT !.messages = SelectSeq(@, LAMBDA m : m.id # "u1")]
    /\ UNCHANGED <<request, ade, selectedModelId, conversationId, subConversationId, history,
                   env, providerCache, providerName, returnedProvider, out, resolved,
                   attempts, gen, pulled, pending, acc, apiCallLogs>>

CloseAllFailed ==
    /\ pc = "close_all_failed"
    /\ closeWriter("finished", "catch_send")
    /\ UNCHANGED <<request, ade, selectedModelId, conversationId, subConversationId, history,
                   env, providerCache, providerName, returnedProvider, out, resolved,
                   attempts, gen, pulled, pending, acc, apiCallLogs, db>>

SendProviderError ==
    /\ pc = "send_provider_error"
    /\ sendSSE(ErrorSSE("PROVIDER_ERROR"), "close_provider_error", "catch_send")
    /\ UNCHANGED <<request, ade, selectedModelId, conversationId, subConversationId, history,
                   env, providerCache, providerName, returnedProvider, writer, closeCalls, resolved,
                   attempts, gen, pulled, pending, acc, apiCallLogs, db>>

CloseProviderError ==
    /\ pc = "close_provider_error"
    /\ closeWriter("finished", "catch_send")
    /\ UNCHANGED <<request, ade, selectedModelId, conversationId, subConversationId, history,
                   env, providerCache, providerName, returnedProvider, out, resolved,
                   attempts, gen, pulled, pending, acc, apiCallLogs, db>>

(***************************************************************************)
(* route.ts: finalize.                                                     *)
(***************************************************************************)
\* finalize called with the primary model after the backup succeeded
FinalModel_Primary == attempts[1].model

\* the model finalize is called with: the model of the last attempt
FinalModel == attempts[Len(attempts)].model

\* the row with the reasoning tokens counted among the output tokens
AssistantMessage_ReasoningInOutput ==
    [id |-> MessageId, conversation_id |-> conversationId,
     sub_conversation_id |-> subConversationId, created_at |-> Now(db),
     role |-> "assistant", content |-> acc.content,
     model |-> FinalModel, usage |-> acc.usage,
     tokens_input |-> acc.usage.inputTokens,
     tokens_output |-> acc.usage.outputTokens + acc.usage.reasoningTokens,
     tokens_reasoning |-> acc.usage.reasoningTokens,
     tokens_cached |-> acc.usage.cachedTokens,
     costUsd |-> calculateCost(FinalModel.provider, FinalModel.id, acc.usage),
     thinkingContent |-> acc.thinkingContent, citations |-> acc.citations,
     webSearchUsed |-> acc.webSearchUsed]

\* the row insertAssistantMessage inserts, with the usage and the cost
\* finalize gives it
AssistantMessage ==
    [id |-> MessageId, conversation_id |-> conversationId,
     sub_conversation_id |-> subConversationId, created_at |-> Now(db),
     role |-> "assistant", content |-> acc.content,
     model |-> FinalModel, usage |-> acc.usage,
     tokens_input |-> acc.usage.inputTokens,
     tokens_output |-> acc.usage.outputTokens,
     tokens_reasoning |-> acc.usage.reasoningTokens,
     tokens_cached |-> acc.usage.cachedTokens,
     costUsd |-> calculateCost(FinalModel.provider, FinalModel.id, acc.usage),
     thinkingContent |-> acc.thinkingContent, citations |-> acc.citations,
     webSearchUsed |-> acc.webSearchUsed]

\* calculateCost and insertAssistantMessage; the insert may fail
FinalizeInsert ==
    /\ pc = "finalize_insert"
    /\ \E ok \in BOOLEAN :
        IF ok
        THEN /\ db' = [db EXCEPT !.messages = Append(@, AssistantMessage)]
             /\ pc' = "finalize_logs"
        ELSE /\ db' = db
             /\ pc' = "catch_send"
    /\ UNCHANGED <<request, ade, selectedModelId, conversationId, subConversationId, history,
                   env, providerCache, providerName, returnedProvider, writer, closeCalls, out, resolved,
                   attempts, gen, pulled, pending, acc, apiCallLogs>>

\* the entries of s at the positions in I, in order
RECURSIVE KeepAt(_, _)
KeepAt(s, I) ==
    IF s = <<>> THEN <<>>
    ELSE KeepAt(SubSeq(s, 1, Len(s) - 1), I)
         \o (IF Len(s) \in I THEN <<s[Len(s)]>> ELSE <<>>)

\* updateConversationTimestamp: the error of the update is not read, so a
\* failed update leaves the row as it was
updateConversationTimestamp(store, convId, updated) ==
    IF updated
    THEN [store EXCEPT !.conversations =
             { IF c.id = convId THEN [c EXCEPT !.updated_at = Now(store)] ELSE c : c \in @ }]
    ELSE store

\* saveRoutingLog throws when its insert fails; saveApiCallLog, called for
\* each entry, does not look at the error of its insert, so a failed insert
\* is lost silently; updateConversationTimestamp
FinalizeLogs ==
    /\ pc = "finalize_logs"
    /\ \E ok \in BOOLEAN :
        IF ok
        THEN /\ \E inserted \in SUBSET (1..Len(apiCallLogs)), updated \in BOOLEAN :
                    db' = updateConversationTimestamp(
                              [db EXCEPT !.routing_logs = Append(@, [message_id |-> MessageId]),
                                         !.api_call_logs = @ \o KeepAt(apiCallLogs, inserted)],
                              conversationId, updated)
             /\ pc' = "finalize_done"
        ELSE /\ db' = db
             /\ pc' = "catch_send"
    /\ UNCHANGED <<request, ade, selectedModelId, conversationId, subConversationId, history,
                   env, providerCache, providerName, returnedProvider, writer, closeCalls, out, resolved,
                   attempts, gen, pulled, pending, acc, apiCallLogs>>

DoneSSE ==
    [type |-> "done", messageId |-> MessageId, conversationId |-> conversationId,
     subConversationId |-> subConversationId, usage |-> acc.usage,
     costUsd |-> calculateCost(FinalModel.provider, FinalModel.id, acc.usage)]

FinalizeSendDone ==
    /\ pc = "finalize_done"
    /\ sendSSE(DoneSSE, "finalize_close", "catch_send")
    /\ UNCHANGED <<request, ade, selectedModelId, conversationId, subConversationId, history,
                   env, providerCache, providerName, returnedProvider, writer, closeCalls, resolved,
                   attempts, gen, pulled, pending, acc, apiCallLogs, db>>

FinalizeClose ==
    /\ pc = "finalize_close"
    /\ closeWriter("finished", "catch_send")
    /\ UNCHANGED <<request, ade, selectedModelId, conversationId, subConversationId, history,
                   env, providerCache, providerName, returnedProvider, out, resolved,
                   attempts, gen, pulled, pending, acc, apiCallLogs, db>>

(***************************************************************************)
(* route.ts: the catch block of handleChat and the catch handler of POST.  *)
(***************************************************************************)
\* handleChat's catch: a rejected write rejects handleChat's promise
CatchSend ==
    /\ pc = "catch_send"
    /\ sendSSE(ErrorSSE("INTERNAL_ERROR"), "catch_close", "post_send")
    /\ UNCHANGED <<request, ade, selectedModelId, conversationId, subConversationId, history,
                   env, providerCache, providerName, returnedProvider, writer, closeCalls, resolved,
                   attempts, gen, pulled, pending, acc, apiCallLogs, db>>

CatchClose ==
    /\ pc = "catch_close"
    /\ closeWriter("finished", "post_send")
    /\ UNCHANGED <<request, ade, selectedModelId, conversationId, subConversationId, history,
                   env, providerCache, providerName, returnedProvider, out, resolved,
                   attempts, gen, pulled, pending, acc, apiCallLogs, db>>

\* POST's .catch: both the write and the close are wrapped in try/catch
PostCatchSend ==
    /\ pc = "post_send"
    /\ sendSSE(ErrorSSE("INTERNAL_ERROR"), "post_close", "post_close")
    /\ UNCHANGED <<request, ade, selectedModelId, conversationId, subConversationId, history,
                   env, providerCache, providerName, returnedProvider, writer, closeCalls, resolved,
                   attempts, gen, pulled, pending, acc, apiCallLogs, db>>

\* POST's .catch with the close outside a try/catch: its rejection escapes
PostCatchClose_Unguarded ==
    /\ pc = "post_close"
    /\ closeWriter("finished", "rejected")
    /\ UNCHANGED <<request, ade, selectedModelId, conversationId, subConversationId, history,
                   env, providerCache, providerName, returnedProvider, out, resolved,
                   attempts, gen, pulled, pending, acc, apiCallLogs, db>>

PostCatchClose ==
    /\ pc = "post_close"
    /\ closeWriter("finished", "finished")
    /\ UNCHANGED <<request, ade, selectedModelId, conversationId, subConversationId, history,
                   env, providerCache, providerName, returnedProvider, out, resolved,
                   attempts, gen, pulled, pending, acc, apiCallLogs, db>>

Next ==
    \/ Prepare
    \/ SendUnsupported
    \/ CloseUnsupported
    \/ SendNoProvider
    \/ CloseNoProvider
    \/ SendRouting
    \/ StreamPull
    \/ StreamForward
    \/ SendRetry
    \/ SendAllFailed
    \/ CloseAllFailed
    \/ SendProviderError
    \/ CloseProviderError
    \/ FinalizeInsert
    \/ FinalizeLogs
    \/ FinalizeSendDone
    \/ FinalizeClose
    \/ CatchSend
    \/ CatchClose
    \/ PostCatchSend
    \/ PostCatchClose
    \/ ClientDisconnect

Spec == Init /\ [][Next]_vars

(***************************************************************************)
(* resolveModel as a function of the oracle's response and the manual      *)
(* model id: the inputs are drawn from a larger catalogue and the function *)
(* is applied once.                                                        *)
(***************************************************************************)
MaxOracleBackups == 3

ResolveCatalogue ==
    Catalogue \cup { ADEModel("gemini-2.5-pro", "google", 6), ADEModel("grok-3", "xai", 5),
                     ADEModel("llama-4", "meta", 4) }

ResolveSelectedIds ==
    {NoModelId, "gpt-4.1", "mistral-large", "gemini-2.5-pro", "not-a-real-model",
     "claude-opus-4", "Claude-3", "gpt-5", "o3-mini", "o4-mini", "o1", "gemini-flash",
     "sonar-pro", "son"}

ResolveInit ==
    /\ pc = "resolveModel"
    /\ ade \in [primaryModel : ResolveCatalogue,
                backupModels : SeqsUpTo(ResolveCatalogue, MaxOracleBackups),
                fallback : {NoFallback}]
    /\ selectedModelId \in ResolveSelectedIds
    /\ env = {}
    /\ providerCache = {}
    /\ providerName = ""
    /\ returnedProvider = NoProvider
    /\ writer = "open"
    /\ closeCalls = 0
    /\ out = <<>>
    /\ resolved = NoResolution
    /\ attempts = <<>>
    /\ gen = NoGen
    /\ pulled = <<>>
    /\ pending = NoEvent
    /\ acc = EmptyAcc
    /\ apiCallLogs = <<>>
    /\ request = NoRequest
    /\ conversationId = "c1"
    /\ subConversationId = NoSubConversation
    /\ history = <<>>
    /\ db = EmptyStore

\* handleChat step 8: resolveModel returns or throws
ResolveModelCall ==
    /\ pc = "resolveModel"
    /\ resolved' = resolveModel(ade, selectedModelId)
    /\ pc' = IF resolved'.ok THEN "resolved" ELSE "resolve_threw"
    /\ UNCHANGED <<request, ade, selectedModelId, conversationId, subConversationId, history,
                   env, providerCache, providerName, returnedProvider, writer, closeCalls, out,
                   attempts, gen, pulled, pending, acc, apiCallLogs, db>>

ResolveNext == ResolveModelCall

ResolveSpec == ResolveInit /\ [][ResolveNext]_vars

(***************************************************************************)
(* A sequence of chat requests on the threads of a record store that       *)
(* already holds one long thread: each request saves its user message and  *)
(* fetches its history (handleChat steps 2-4) and then ends with or        *)
(* without an assistant message.  The text of a message is its number.     *)
(***************************************************************************)
MaxStored == 22
MaxNew == 4

SubConversations ==
    { [id |-> "s1", conversation_id |-> "c1", highlighted_text |-> "quantum tunnelling"],
      [id |-> "s2", conversation_id |-> "c1", highlighted_text |-> "wave function"] }

\* the main threads of two conversations and the two sub-conversations
Threads ==
    { [conversationId |-> "c1", subConversationId |-> NoSubConversation],
      [conversationId |-> "c2", subConversationId |-> NoSubConversation],
      [conversationId |-> "c1", subConversationId |-> "s1"],
      [conversationId |-> "c1", subConversationId |-> "s2"] }

\* n messages of one thread, user and assistant in turn
StoredThread(n, thread) ==
    [i \in 1..n |->
        [id |-> i, conversation_id |-> thread.conversationId,
         sub_conversation_id |-> thread.subConversationId,
         role |-> IF i % 2 = 1 THEN "user" ELSE "assistant",
         content |-> i, created_at |-> i]]

HistoryInit ==
    /\ pc = "handleChat"
    /\ \E n \in (MaxStored - MaxNew)..MaxStored,
          thread \in { t \in Threads : t.conversationId = "c1"
                                       /\ t.subConversationId \in {NoSubConversation, "s1"} } :
          db = [EmptyStore EXCEPT !.messages = StoredThread(n, thread),
                                  !.sub_conversations = SubConversations]
    /\ request = NoRequest
    /\ conversationId = "c1"
    /\ subConversationId = NoSubConversation
    /\ history = <<>>
    /\ ade = [primaryModel |-> ADEModel("gpt-4.1", "openai", 9), backupModels |-> <<>>,
              fallback |-> NoFallback]
    /\ selectedModelId = NoModelId
    /\ env = KeyedVendors
    /\ providerCache = {}
    /\ providerName = ""
    /\ returnedProvider = NoProvider
    /\ writer = "open"
    /\ closeCalls = 0
    /\ out = <<>>
    /\ resolved = NoResolution
    /\ attempts = <<>>
    /\ gen = NoGen
    /\ pulled = <<>>
    /\ pending = NoEvent
    /\ acc = EmptyAcc
    /\ apiCallLogs = <<>>

\* handleChat steps 2-4 of a request on some thread: validateSubConversation
\* or getOrCreateConversation, saveUserMessage, fetchConversationHistory
\* (the select of the highlighted text may fail unnoticed, the select of the
\* messages throws when it fails)
SaveAndFetch ==
    /\ pc = "handleChat"
    /\ Len(db.messages) < MaxStored
    /\ \E thread \in Threads, contextOk \in BOOLEAN, messagesOk \in BOOLEAN :
        /\ conversationId' = thread.conversationId
        /\ subConversationId' = thread.subConversationId
        /\ db' = [db EXCEPT !.messages =
                     Append(@, UserMessage(Now(db), thread.conversationId, Now(db),
                                           thread.subConversationId, Now(db)))]
        /\ IF messagesOk
           THEN /\ history' = fetchConversationHistory(db', thread.conversationId,
                                  thread.subConversationId,
                                  selectHighlightedText(db', thread.subConversationId,
                                                        contextOk))
                /\ pc' = "finalize_insert"
           ELSE /\ history' = history
                /\ pc' = "handleChat"
    /\ UNCHANGED <<request, ade, selectedModelId, env, providerCache, providerName, returnedProvider, writer, closeCalls, out, resolved,
                   attempts, gen, pulled, pending, acc, apiCallLogs>>

\* finalize: insertAssistantMessage on the thread of the request
InsertReply ==
    /\ pc = "finalize_insert"
    /\ Len(db.messages) < MaxStored
    /\ db' = [db EXCEPT !.messages =
                 Append(@, [id |-> Now(db), conversation_id |-> conversationId,
                            sub_conversation_id |-> subConversationId,
                            role |-> "assistant", content |-> Now(db),
                            created_at |-> Now(db)])]
    /\ pc' = "handleChat"
    /\ UNCHANGED <<request, ade, selectedModelId, conversationId, subConversationId, history,
                   env, providerCache, providerName, returnedProvider, writer, closeCalls, out, resolved,
                   attempts, gen, pulled, pending, acc, apiCallLogs>>

\* the request ends without an assistant message
RequestFails ==
    /\ pc = "finalize_insert"
    /\ pc' = "handleChat"
    /\ UNCHANGED <<request, ade, selectedModelId, conversationId, subConversationId, history,
                   env, providerCache, providerName, returnedProvider, writer, closeCalls, out, resolved,
                   attempts, gen, pulled, pending, acc, apiCallLogs, db>>

HistoryNext ==
    \/ SaveAndFetch
    \/ InsertReply
    \/ RequestFails

HistorySpec == HistoryInit /\ [][HistoryNext]_vars

(***************************************************************************)
(* calculateCost as a function of the model and the usage: finalize is     *)
(* entered after one successful attempt on a priced model with a usage     *)
(* drawn from a bounded set, computes the cost and stores the message.     *)
(***************************************************************************)
MaxTokens == 4

PricedModels ==
    { ADEModel("gpt-4.1", "openai", 9),
      ADEModel("gpt-4o-mini", "openai", 8),
      ADEModel("gpt-4o-mini-2024-07-18", "openai", 8),
      ADEModel("o3-mini", "openai", 7),
      ADEModel("claude-sonnet-4-6", "anthropic", 8),
      ADEModel("gemini-2.5-flash-lite", "google", 6),
      ADEModel("sonar-pro", "perplexity", 5),
      ADEModel("mistral-large", "mistral", 7) }

TokenUsages ==
    [inputTokens : 0..MaxTokens, outputTokens : 0..MaxTokens,
     reasoningTokens : 0..MaxTokens, cachedTokens : {0}, webSearchRequests : 0..1]

CostInit ==
    /\ pc = "finalize"
    /\ \E m \in PricedModels :
        /\ attempts = <<[model |-> toModelInfo(m), status |-> "success", error |-> NoError]>>
        /\ ade = [primaryModel |-> m, backupModels |-> <<>>, fallback |-> NoFallback]
    /\ \E usage \in TokenUsages : acc = [EmptyAcc EXCEPT !.usage = usage]
    /\ selectedModelId = NoModelId
    /\ env = KeyedVendors
    /\ providerCache = {}
    /\ providerName = ""
    /\ returnedProvider = NoProvider
    /\ writer = "open"
    /\ closeCalls = 0
    /\ out = <<>>
    /\ resolved = NoResolution
    /\ gen = NoGen
    /\ pulled = <<>>
    /\ pending = NoEvent
    /\ apiCallLogs = <<>>
    /\ request = NoRequest
    /\ conversationId = "c1"
    /\ subConversationId = NoSubConversation
    /\ history = <<>>
    /\ db = EmptyStore

\* finalize: calculateCost, then the assistant message with costUsd
CalculateCostCall ==
    /\ pc = "finalize"
    /\ db' = [db EXCEPT !.messages = Append(@, AssistantMessage)]
    /\ pc' = "finalize_logs"
    /\ UNCHANGED <<request, ade, selectedModelId, conversationId, subConversationId, history,
                   env, providerCache, providerName, returnedProvider, writer, closeCalls, out, resolved,
                   attempts, gen, pulled, pending, acc, apiCallLogs>>

CostNext == CalculateCostCall

CostSpec == CostInit /\ [][CostNext]_vars

(***************************************************************************)
(* The provider registry on its own: any sequence of getProvider calls in  *)
(* one process, for the supported vendors and for a name outside them,     *)
(* while API keys are set and unset in the environment.                    *)
(***************************************************************************)

ProviderNames == SUPPORTED_PROVIDERS \cup {"mistral"}

RegistryInit ==
    /\ pc = "module_loaded"
    /\ env \in SUBSET SUPPORTED_PROVIDERS
    /\ providerCache = {}
    /\ providerName = ""
    /\ returnedProvider = NoProvider
    /\ ade = [primaryModel |-> NoModel, backupModels |-> <<>>, fallback |-> NoFallback]
    /\ selectedModelId = NoModelId
    /\ attempts = <<>>
    /\ acc = EmptyAcc
    /\ writer = "open"
    /\ closeCalls = 0
    /\ out = <<>>
    /\ resolved = NoResolution
    /\ gen = NoGen
    /\ pulled = <<>>
    /\ pending = NoEvent
    /\ apiCallLogs = <<>>
    /\ request = NoRequest
    /\ conversationId = "c1"
    /\ subConversationId = NoSubConversation
    /\ history = <<>>
    /\ db = EmptyStore

\* one call of getProvider: it returns the adapter or throws
GetProviderCall ==
    \E name \in ProviderNames :
        LET got == getProvider(name)
        IN  /\ providerName' = name
            /\ providerCache' = got.cache
            /\ returnedProvider' = got.provider
            /\ pc' = CASE got.error = NoError -> "returned"
                        [] got.error = MissingKeyError -> "threw_missing_key"
                        [] OTHER -> "threw_unsupported"
            /\ UNCHANGED <<request, ade, selectedModelId, conversationId, subConversationId,
                           history, env, writer, closeCalls, out, resolved,
                           attempts, gen, pulled, pending, acc, apiCallLogs, db>>

\* process.env between two calls: one API key is set or unset
EnvChanges ==
    /\ \E v \in SUPPORTED_PROVIDERS :
        env' = IF v \in env THEN env \ {v} ELSE env \cup {v}
    /\ pc' = "env_changed"
    /\ UNCHANGED <<request, ade, selectedModelId, conversationId, subConversationId, history,
                   providerCache, providerName, returnedProvider, writer, closeCalls,
                   out, resolved, attempts, gen, pulled, pending, acc, apiCallLogs, db>>

RegistryNext == GetProviderCall \/ EnvChanges

RegistrySpec == RegistryInit /\ [][RegistryNext]_vars

(***************************************************************************)
(* POST /api/conversations/[id]/messages/[messageId]/sub-conversations:    *)
(* any sequence of create calls on a record store whose messages table     *)
(* grows meanwhile.  pc holds the status of the last response.             *)
(***************************************************************************)
\* most sub-conversations created
MaxSubConversations == 2

\* the messages other requests save: one in conversation c1, then one in c2
StoredMessages ==
    << [id |-> "m0", conversation_id |-> "c1", sub_conversation_id |-> NoSubConversation,
        role |-> "user", content |-> "question", created_at |-> 1],
       [id |-> "m1", conversation_id |-> "c2", sub_conversation_id |-> NoSubConversation,
        role |-> "user", content |-> "question", created_at |-> 2] >>

\* the route parameters and the body of a create request
CreateRequest(convId, messageId, highlightedText) ==
    [route |-> "sub-conversations", conversationId |-> convId, messageId |-> messageId,
     highlightedText |-> highlightedText]

CreateRequests ==
    { CreateRequest(c, m, t) : c \in {"c1", "c2"}, m \in {"m0", "m1", "m9"},
                               t \in {String("tunnelling"), String("   "), Undefined} }

SubConversationInit ==
    /\ pc = "listening"
    /\ request = NoRequest
    /\ db = [EmptyStore EXCEPT
                !.conversations = { [id |-> "c1", updated_at |-> 0],
                                    [id |-> "c2", updated_at |-> 0] }]
    /\ conversationId = NoConversation
    /\ subConversationId = NoSubConversation
    /\ history = <<>>
    /\ ade = [primaryModel |-> NoModel, backupModels |-> <<>>, fallback |-> NoFallback]
    /\ selectedModelId = NoModelId
    /\ env = {}
    /\ providerCache = {}
    /\ providerName = ""
    /\ returnedProvider = NoProvider
    /\ writer = "open"
    /\ closeCalls = 0
    /\ out = <<>>
    /\ resolved = NoResolution
    /\ attempts = <<>>
    /\ gen = NoGen
    /\ pulled = <<>>
    /\ pending = NoEvent
    /\ acc = EmptyAcc
    /\ apiCallLogs = <<>>

\* the select of the parent message by id and conversation_id, with .single()
parentMessageFound(store, convId, parentMessageId, selectOk) ==
    /\ selectOk
    /\ \E i \in 1..Len(store.messages) :
          /\ store.messages[i].id = parentMessageId
          /\ store.messages[i].conversation_id = convId

\* createSubConversation selecting the parent message by its id alone
createSubConversation_AnyConversation(store, convId, parentMessageId, highlightedText, selectOk, insertOk) ==
    LET found == selectOk /\ \E i \in 1..Len(store.messages) :
                                store.messages[i].id = parentMessageId
        row == [id |-> Cardinality(store.sub_conversations) + 1,
                conversation_id |-> convId, parent_message_id |-> parentMessageId,
                highlighted_text |-> highlightedText]
    IN  IF ~found
        THEN [error |-> "Parent message not found in this conversation", store |-> store]
        ELSE IF ~insertOk
        THEN [error |-> "Failed to create sub-conversation", store |-> store]
        ELSE [error |-> NoError,
              store |-> [store EXCEPT !.sub_conversations = @ \cup {row}]]

\* createSubConversation: the thrown error, NoError when it returns, and the
\* store after the call; the id of the new row is one no row has
createSubConversation(store, convId, parentMessageId, highlightedText, selectOk, insertOk) ==
    LET row == [id |-> Cardinality(store.sub_conversations) + 1,
                conversation_id |-> convId, parent_message_id |-> parentMessageId,
                highlighted_text |-> highlightedText]
    IN  IF ~parentMessageFound(store, convId, parentMessageId, selectOk)
        THEN [error |-> "Parent message not found in this conversation", store |-> store]
        ELSE IF ~insertOk
        THEN [error |-> "Failed to create sub-conversation", store |-> store]
        ELSE [error |-> NoError,
              store |-> [store EXCEPT !.sub_conversations = @ \cup {row}]]

\* POST: 400 without a highlightedText, else createSubConversation and 201,
\* 404 when the error message includes "not found", 500 otherwise
CreateSubConversationCall ==
    /\ Cardinality(db.sub_conversations) < MaxSubConversations
    /\ \E r \in CreateRequests, selectOk \in BOOLEAN, insertOk \in BOOLEAN :
        LET text == IF r.highlightedText.type = "string"
                    THEN trim(r.highlightedText.value) ELSE ""
            created == createSubConversation(db, r.conversationId, r.messageId, text,
                                             selectOk, insertOk)
        IN  /\ request' = r
            /\ IF text = ""
               THEN pc' = "responded_400" /\ db' = db
               ELSE /\ db' = created.store
                    /\ pc' = CASE created.error = NoError -> "responded_201"
                                [] created.error = "Parent message not found in this conversation"
                                     -> "responded_404"
                                [] OTHER -> "responded_500"
    /\ UNCHANGED <<ade, selectedModelId, conversationId, subConversationId, history,
                   env, providerCache, providerName, returnedProvider, writer, closeCalls,
                   out, resolved, attempts, gen, pulled, pending, acc, apiCallLogs>>

\* another request saves a message meanwhile
MessageSaved ==
    /\ Len(db.messages) < Len(StoredMessages)
    /\ db' = [db EXCEPT !.messages = Append(@, StoredMessages[Len(db.messages) + 1])]
    /\ pc' = "listening"
    /\ UNCHANGED <<request, ade, selectedModelId, conversationId, subConversationId, history,
                   env, providerCache, providerName, returnedProvider, writer, closeCalls,
                   out, resolved, attempts, gen, pulled, pending, acc, apiCallLogs>>

SubConversationNext == CreateSubConversationCall \/ MessageSaved

SubConversationSpec == SubConversationInit /\ [][SubConversationNext]_vars

(***************************************************************************)
(* POST /api/chat for every kind of request body, on an empty and on a     *)
(* seeded record store, with one oracle response for each way a request    *)
(* ends and every API key set.                                             *)
(***************************************************************************)
\* bodies validateChatRequest rejects: no JSON, not an object, and objects
\* whose message is absent, not a string, empty or blank
RejectedBodies ==
    { ChatBody(kind, Undefined, Undefined, Undefined) : kind \in {"malformed", "null", "string"} }
    \cup { ChatBody("object", message, String("c1"), String("s1")) :
             message \in {Undefined, Number("5"), String(""), String("   ")} }

\* bodies with a message, with and without the ids of a conversation and of a
\* sub-conversation, stored or not
AcceptedBodies ==
    { ChatBody("object", String(" hello "), convId, subConvId) :
        convId \in {Undefined, String("c1"), String("c2"), String("c9")},
        subConvId \in {Undefined, String("s1"), String("s9")} }

ChatBodies == RejectedBodies \cup AcceptedBodies

\* the oracle declines; no candidate on a supported vendor; a primary with a
\* backup; a primary without a backup
RequestOracle ==
    { [primaryModel |-> ADEModel("gpt-4.1", "openai", 9), backupModels |-> <<>>,
       fallback |-> ADEFallback("Image generation is not supported")],
      [primaryModel |-> ADEModel("mistral-large", "mistral", 7), backupModels |-> <<>>,
       fallback |-> NoFallback],
      [primaryModel |-> ADEModel("gpt-4.1", "openai", 9),
       backupModels |-> <<ADEModel("claude-sonnet-4-6", "anthropic", 8)>>,
       fallback |-> NoFallback],
      [primaryModel |-> ADEModel("gpt-4.1", "openai", 9), backupModels |-> <<>>,
       fallback |-> NoFallback] }

RequestInit ==
    /\ pc = "handleChat"
    /\ request \in ChatBodies
    /\ db \in {EmptyStore, SeededStore}
    /\ ade \in RequestOracle
    /\ selectedModelId = NoModelId
    /\ env = KeyedVendors
    /\ providerCache = {}
    /\ providerName = ""
    /\ returnedProvider = NoProvider
    /\ writer = "open"
    /\ closeCalls = 0
    /\ out = <<>>
    /\ resolved = NoResolution
    /\ attempts = <<>>
    /\ gen = NoGen
    /\ pulled = <<>>
    /\ pending = NoEvent
    /\ acc = EmptyAcc
    /\ apiCallLogs = <<>>
    /\ conversationId = NoConversation
    /\ subConversationId = NoSubConversation
    /\ history = <<>>

RequestSpec == RequestInit /\ [][Next]_vars

(***************************************************************************)
(* Vocabulary of the properties.                                           *)
(***************************************************************************)
IsError(e, code) == e.type = "error" /\ e.code = code
IsTerminalError(e) == e.type = "error" /\ e.code # "PROVIDER_RETRY"
IsDone(e) == e.type = "done"
IsRouting(e) == e.type = "routing"
IsRetry(e) == IsError(e, "PROVIDER_RETRY")

Count(s, P(_)) == Cardinality({ i \in 1..Len(s) : P(s[i]) })
Some(s, P(_)) == \E i \in 1..Len(s) : P(s[i])
Last(s) == s[Len(s)]

IsAssistant(m) == m.role = "assistant"
OnSupportedVendor(m) == m.provider \in SUPPORTED_PROVIDERS

PrimaryFailed == Len(attempts) >= 1 /\ attempts[1].status = "failed"
LastAttemptSucceeded == Len(attempts) >= 1 /\ Last(attempts).status = "success"

(***************************************************************************)
(* C1: when the primary attempt fails and the backup list holds a          *)
(* candidate on a supported vendor, exactly one backup attempt is made, on *)
(* the first such candidate; if it fails too the stream ends with          *)
(* ALL_PROVIDERS_FAILED, carries no done and no assistant message is       *)
(* stored.  Stated for a request that has run to its end.                  *)
(***************************************************************************)
C1_Claim ==
    (pc = "finished" /\ PrimaryFailed /\ Some(resolved.backupModels, OnSupportedVendor))
    => /\ Len(attempts) = 2
       /\ \E i \in 1..Len(resolved.backupModels) :
            /\ OnSupportedVendor(resolved.backupModels[i])
            /\ \A j \in 1..(i - 1) : ~OnSupportedVendor(resolved.backupModels[j])
            /\ attempts[2].model = resolved.backupModels[i]
       /\ attempts[2].status = "failed"
            => /\ out # <<>>
               /\ IsError(Last(out), "ALL_PROVIDERS_FAILED")
               /\ ~Some(out, IsDone)
               /\ ~Some(db.messages, IsAssistant)

(***************************************************************************)
(* C2: at most two provider attempts are started per request; the backup   *)
(* attempt starts only once the primary attempt has returned failed, no    *)
(* two attempts run at the same time, the backup attempted is the first    *)
(* backup on a supported vendor, and no attempt follows a failed backup.   *)
(***************************************************************************)
C2_AtMostTwoAttempts ==
    /\ Len(attempts) <= 2
    /\ Cardinality({ i \in 1..Len(attempts) : attempts[i].status = "running" }) <= 1
    /\ \A i \in 1..Len(attempts) : attempts[i].status = "running" => i = Len(attempts)
    /\ Len(attempts) = 2 => attempts[1].status = "failed"
    /\ Len(attempts) >= 1 => attempts[1].model = resolved.model

\* both attempts failed although a second supported backup was on the list
C2_Witness ==
    /\ pc = "finished"
    /\ Len(attempts) = 2
    /\ attempts[2].status = "failed"
    /\ Count(resolved.backupModels, OnSupportedVendor) >= 2

(***************************************************************************)
(* C3: the assistant message is inserted at most once per request, only    *)
(* after the attempt handed to finalize returned success, and never in a   *)
(* request whose attempts all failed.                                      *)
(***************************************************************************)
C3_InsertOnceAfterSuccess ==
    /\ Count(db.messages, IsAssistant) <= 1
    /\ Some(db.messages, IsAssistant)
        => /\ LastAttemptSucceeded
           /\ \A i \in 1..Len(db.messages) :
                IsAssistant(db.messages[i]) => db.messages[i].model = Last(attempts).model
    /\ (\A i \in 1..Len(attempts) : attempts[i].status = "failed")
        => ~Some(db.messages, IsAssistant)

\* the message was stored after the backup attempt succeeded
C3_Witness ==
    /\ Len(attempts) = 2
    /\ Count(db.messages, IsAssistant) = 1
    /\ pc = "finished"

(***************************************************************************)
(* C4: an assistant message is stored and a done event is sent only if the *)
(* adapter stream of the finalized attempt yielded a done event.           *)
(***************************************************************************)
C4_Claim ==
    (Some(db.messages, IsAssistant) \/ Some(out, IsDone)) => Some(pulled, IsDone)

(***************************************************************************)
(* C5: the outward stream carries at most one done event, exactly one when *)
(* an attempt succeeded and finalize ran to its end; a stream carrying a   *)
(* terminal error carries no done; a done event is the last event written. *)
(***************************************************************************)
C5_DoneOnceAndLast ==
    /\ Count(out, IsDone) <= 1
    /\ Some(out, IsDone) => (IsDone(Last(out)) /\ LastAttemptSucceeded)
    /\ Some(out, IsTerminalError) => ~Some(out, IsDone)
    /\ pc = "finalize_close" => Count(out, IsDone) = 1
    /\ (pc = "finished" /\ writer = "closed" /\ db.routing_logs # <<>>)
        => Count(out, IsDone) = 1

\* a request that ended with the done event delivered and the writer closed
C5_Witness ==
    /\ pc = "finished"
    /\ writer = "closed"
    /\ Some(out, IsDone)
    /\ Some(out, IsRetry)

(***************************************************************************)
(* C6: PROVIDER_RETRY is emitted at most once, only after the primary      *)
(* attempt failed and a backup was selected, and the backup attempt starts *)
(* after it; it is never the last event of a request that has run to its   *)
(* end, whose stream ends with done or a terminal error; every other error *)
(* is the last event of its stream.                                        *)
(***************************************************************************)
C6_RetryOnceAfterPrimaryFailed ==
    /\ Count(out, IsRetry) <= 1
    /\ Some(out, IsRetry)
        => /\ PrimaryFailed
           /\ Some(resolved.backupModels, OnSupportedVendor)
           /\ Len(attempts) = 2

C6_TerminalErrorIsLast ==
    \A i \in 1..Len(out) : IsTerminalError(out[i]) => i = Len(out)

C6_Claim ==
    /\ C6_RetryOnceAfterPrimaryFailed
    /\ C6_TerminalErrorIsLast
    /\ (pc = "finished" /\ Some(out, IsRetry))
        => (IsDone(Last(out)) \/ IsTerminalError(Last(out)))

(***************************************************************************)
(* C7: a request that reaches a generation attempt has emitted exactly one *)
(* routing event, as the first event of the stream, before the primary     *)
(* attempt started and before every thinking, delta, citations, tool_use   *)
(* and done event; falling back to a backup emits no second routing event. *)
(***************************************************************************)
IsStreamEvent(e) == e.type \in {"delta", "thinking", "citations", "tool_use"}

C7_RoutingOnceAndFirst ==
    /\ Count(out, IsRouting) <= 1
    /\ Len(attempts) >= 1 => (out # <<>> /\ IsRouting(out[1]) /\ Count(out, IsRouting) = 1)
    /\ \A i \in 1..Len(out) :
        (IsStreamEvent(out[i]) \/ IsDone(out[i]) \/ IsRetry(out[i]))
            => (i > 1 /\ IsRouting(out[1]))
    /\ Some(out, IsRouting) => out[1].model = resolved.model

\* the backup attempt has forwarded an event and the stream holds one routing event
C7_Witness ==
    /\ Len(attempts) = 2
    /\ Some(out, IsRetry)
    /\ IsStreamEvent(Last(out))
    /\ Count(out, IsRouting) = 1

(***************************************************************************)
(* C8 as claimed: every delta, thinking, citations and tool_use event the  *)
(* adapter yielded has been forwarded outward when the next adapter event  *)
(* is pulled, so the outward events of the attempt are the adapter's, in   *)
(* order.                                                                  *)
(***************************************************************************)
\* the outward form of an adapter event
AsOutward(e) ==
    CASE e.type = "citations" -> [type |-> "citations", sources |-> e.citations]
      [] e.type = "tool_use" -> [type |-> "tool_use", tool |-> e.tool, status |-> e.status]
      [] OTHER -> [type |-> e.type, content |-> e.content]

\* the stream events written since the running attempt started
AttemptStart ==
    IF Some(out, IsRetry) THEN CHOOSE i \in 1..Len(out) : IsRetry(out[i])
    ELSE IF Some(out, IsRouting) THEN CHOOSE i \in 1..Len(out) : IsRouting(out[i])
    ELSE 0
AttemptOut == SelectSeq(SubSeq(out, AttemptStart + 1, Len(out)), IsStreamEvent)

Front(s) == SubSeq(s, 1, Len(s) - 1)

IsForwardable(e) ==
    /\ IsStreamEvent(e)
    /\ e.type \in {"delta", "thinking"} => e.content # ""

C9_Claim ==
    \A i \in 1..Len(attempts) : attempts[i].error # WriteRejected

(***************************************************************************)
(* C10 as claimed: with no manual model id and the oracle's primary on a   *)
(* supported vendor, resolveModel returns that primary, isManualSelection  *)
(* = FALSE, and as backups the oracle backups on supported vendors only.   *)
(***************************************************************************)
C10_Case ==
    /\ pc # "handleChat"
    /\ resolved.ok
    /\ selectedModelId = NoModelId
    /\ OnSupportedVendor(ade.primaryModel)

SameModel(info, m) ==
    /\ info.id = m.id
    /\ info.name = m.name
    /\ info.provider = m.provider
    /\ info.score = m.score
    /\ info.reasoning = m.reasoning.summary

SameModels(infos, ms) ==
    /\ Len(infos) = Len(ms)
    /\ \A i \in 1..Len(ms) : SameModel(infos[i], ms[i])

AllCandidates == <<ade.primaryModel>> \o ade.backupModels

DistinctIds(ms) == \A i, j \in 1..Len(ms) : ms[i].id = ms[j].id => i = j

RemoveAt(s, i) == SubSeq(s, 1, i - 1) \o SubSeq(s, i + 1, Len(s))

FirstSupportedBackup ==
    CHOOSE i \in 1..Len(ade.backupModels) :
        /\ OnSupportedVendor(ade.backupModels[i])
        /\ \A j \in 1..(i - 1) : ~OnSupportedVendor(ade.backupModels[j])

C11_Case ==
    /\ pc \in {"resolved", "resolve_threw"}
    /\ selectedModelId = NoModelId
    /\ ~OnSupportedVendor(ade.primaryModel)
    /\ Some(ade.backupModels, OnSupportedVendor)

C13_Case ==
    /\ pc \in {"resolved", "resolve_threw"}
    /\ selectedModelId # NoModelId
    /\ \E i \in 1..Len(AllCandidates) : AllCandidates[i].id = selectedModelId

C13_MatchedSelectionPromoted ==
    C13_Case
    => LET sel == CHOOSE i \in 1..Len(AllCandidates) :
                      /\ AllCandidates[i].id = selectedModelId
                      /\ \A j \in 1..(i - 1) : AllCandidates[j].id # selectedModelId
           HasOtherId(m) == m.id # selectedModelId
       IN  /\ pc = "resolved"
           /\ SameModel(resolved.model, AllCandidates[sel])
           /\ resolved.isManualSelection
           /\ SameModels(resolved.backupModels, SelectSeq(AllCandidates, HasOtherId))
           /\ DistinctIds(AllCandidates)
               => SameModels(resolved.backupModels, RemoveAt(AllCandidates, sel))
           /\ ade.primaryModel.id # selectedModelId
               => /\ resolved.backupModels # <<>>
                  /\ SameModel(resolved.backupModels[1], ade.primaryModel)

\* the manual id is the second of three distinct oracle backups
C13_Witness ==
    /\ C13_Case
    /\ pc = "resolved"
    /\ Len(ade.backupModels) = 3
    /\ DistinctIds(AllCandidates)
    /\ ade.backupModels[2].id = selectedModelId
    /\ resolved.model.id = selectedModelId
    /\ Len(resolved.backupModels) = 3

(***************************************************************************)
(* C14: when the manual model id is the id of no oracle candidate,         *)
(* resolveModel returns a primary with that id, score 0 and the vendor of  *)
(* the id's prefix (claude: anthropic; gpt, o3, o4: openai; gemini:        *)
(* google; sonar: perplexity; otherwise openai), isManualSelection = TRUE, *)
(* and every oracle candidate, primary first, as a backup.                 *)
(***************************************************************************)
\* the vendor expected for each manual id of ResolveSelectedIds
ExpectedVendor(id) ==
    CASE id \in {"claude-opus-4"} -> "anthropic"
      [] id \in {"gpt-4.1", "gpt-5", "o3-mini", "o4-mini"} -> "openai"
      [] id \in {"gemini-2.5-pro", "gemini-flash"} -> "google"
      [] id \in {"sonar-pro"} -> "perplexity"
      [] id \in {"not-a-real-model", "Claude-3", "o1", "son", "mistral-large"} -> "openai"

C14_Case ==
    /\ pc \in {"resolved", "resolve_threw"}
    /\ selectedModelId # NoModelId
    /\ \A i \in 1..Len(AllCandidates) : AllCandidates[i].id # selectedModelId

C14_UnmatchedSelectionSynthesized ==
    C14_Case
    => /\ pc = "resolved"
       /\ resolved.model.id = selectedModelId
       /\ resolved.model.score = 0
       /\ resolved.model.provider = ExpectedVendor(selectedModelId)
       /\ resolved.isManualSelection
       /\ SameModels(resolved.backupModels, AllCandidates)

\* a sonar id unknown to the oracle was given the perplexity vendor
C14_Witness ==
    /\ C14_Case
    /\ selectedModelId = "sonar-pro"
    /\ resolved.model.provider = "perplexity"
    /\ Len(resolved.backupModels) = 4

(***************************************************************************)
(* C12: with no manual model id and neither the oracle's primary nor any   *)
(* oracle backup on a supported vendor, routing fails: handleChat goes     *)
(* from its preparation to the NO_PROVIDER error unless the preparation    *)
(* itself threw; the stream carries no routing event and at most one       *)
(* event, the NO_PROVIDER error once its write resolved; no adapter is     *)
(* driven and no assistant message is stored.                              *)
(***************************************************************************)
C12_Case ==
    /\ selectedModelId = NoModelId
    /\ ~(ade.fallback.present /\ ade.fallback.message # "")
    /\ \A i \in 1..Len(AllCandidates) : ~OnSupportedVendor(AllCandidates[i])

C12_State ==
    C12_Case
    => /\ ~resolved.ok
       /\ pc # "send_routing"
       /\ attempts = <<>>
       /\ gen = NoGen
       /\ pulled = <<>>
       /\ apiCallLogs = <<>>
       /\ ~Some(db.messages, IsAssistant)
       /\ ~Some(out, IsRouting)
       /\ ~Some(out, IsDone)
       /\ Len(out) <= 1
       /\ pc = "close_no_provider" => out = <<ErrorSSE("NO_PROVIDER")>>
       /\ (pc = "finished" /\ writer = "closed") => (Len(out) = 1 /\ IsTerminalError(out[1]))

C12_Step ==
    (C12_Case /\ pc = "handleChat" /\ pc' \notin {"handleChat", "catch_send"})
    => pc' = "send_no_provider"

C19_State(case) ==
    case
    => /\ resolved = NoResolution
       /\ pc \notin {"send_routing", "send_no_provider"}
       /\ attempts = <<>>
       /\ gen = NoGen
       /\ pulled = <<>>
       /\ ~Some(db.messages, IsAssistant)
       /\ ~Some(out, IsRouting)
       /\ ~Some(out, IsDone)
       /\ Len(out) <= 1
       /\ pc = "close_unsupported"
           => /\ Len(out) = 1
              /\ IsError(out[1], "UNSUPPORTED_TASK")
              /\ out[1].category = ade.fallback.category
              /\ out[1].suggestedPlatforms = ade.fallback.suggestedPlatforms
       /\ (pc = "finished" /\ writer = "closed") => (Len(out) = 1 /\ IsTerminalError(out[1]))

C19_Step(case) ==
    (case /\ pc = "handleChat" /\ pc' \notin {"handleChat", "catch_send"})
    => pc' = "send_unsupported"

C19_Declined == ade.fallback.present /\ ade.fallback.message # ""

RECURSIVE DeltaText(_)
DeltaText(events) ==
    IF events = <<>> THEN ""
    ELSE DeltaText(Front(events))
         \o (IF Last(events).type = "delta" THEN Last(events).content ELSE "")

RECURSIVE ReportedUsage(_)
ReportedUsage(events) ==
    IF events = <<>> THEN ZeroUsage
    ELSE IF Last(events).type = "done" THEN Last(events).usage
    ELSE ReportedUsage(Front(events))

C15_Case ==
    /\ Len(attempts) = 2
    /\ attempts[2].status = "success"
    /\ pc \in {"finalize_logs", "finalize_done", "finalize_close", "catch_send", "catch_close",
               "post_send", "post_close", "finished"}
    /\ Some(db.messages, IsAssistant)

C15_BackupIsStoredAndBilled ==
    C15_Case
    => LET primary == attempts[1].model
           backup == attempts[2].model
           usage == ReportedUsage(pulled)
           cost == calculateCost(backup.provider, backup.id, usage)
       IN  /\ primary = resolved.model
           /\ backup = resolved.backupModels[findSupportedBackup(resolved.backupModels)]
           /\ out # <<>> /\ IsRouting(out[1]) /\ out[1].model = primary
           /\ \A i \in 1..Len(db.messages) :
                IsAssistant(db.messages[i])
                => /\ db.messages[i].model = backup
                   /\ db.messages[i].content = DeltaText(pulled)
                   /\ db.messages[i].usage = usage
                   /\ db.messages[i].costUsd = cost
           /\ \A i \in 1..Len(out) :
                IsDone(out[i]) => (out[i].usage = usage /\ out[i].costUsd = cost)

\* the primary forwarded a delta and failed; the backup, another model,
\* answered and reported its usage
C15_Witness ==
    /\ C15_Case
    /\ pc = "finished"
    /\ Some(out, IsDone)
    /\ attempts[1].error = VendorError
    /\ attempts[1].model.id # attempts[2].model.id
    /\ \E i, j \in 1..Len(out) : i < j /\ out[i].type = "delta" /\ IsRetry(out[j])
    /\ DeltaText(pulled) # ""
    /\ ReportedUsage(pulled) # ZeroUsage

(***************************************************************************)
(* C16: when the done event is on the stream, the assistant message with   *)
(* the done event's messageId is in the record store together with the     *)
(* routing log and one API call log per attempt, and that messageId is the *)
(* one the routing event announced.                                        *)
(***************************************************************************)
C16_Claim ==
    \A d \in 1..Len(out) :
        IsDone(out[d])
        => /\ \E i \in 1..Len(db.messages) :
                IsAssistant(db.messages[i]) /\ db.messages[i].id = out[d].messageId
           /\ \E i \in 1..Len(db.routing_logs) :
                db.routing_logs[i].message_id = out[d].messageId
           /\ Len(db.api_call_logs) = Len(attempts)
           /\ \A a \in 1..Len(attempts) :
                /\ a <= Len(db.api_call_logs)
                /\ db.api_call_logs[a].modelId = attempts[a].model.id
           /\ IsRouting(out[1])
           /\ out[1].messageId = out[d].messageId

(***************************************************************************)
(* The history of a request, seen from the record store.                   *)
(***************************************************************************)
\* the rows of the thread of the request, in chronological order
ThreadRows ==
    LET InThread(m) ==
            IF subConversationId # NoSubConversation
            THEN m.sub_conversation_id = subConversationId
            ELSE m.conversation_id = conversationId
                 /\ m.sub_conversation_id = NoSubConversation
    IN  FilterSeq(db.messages, InThread)

\* the history without its system messages
HistoryMessages ==
    LET NotSystem(h) == h.role # "system"
    IN  FilterSeq(history, NotSystem)

\* the state right after a request fetched its history
HistoryBuilt == pc = "finalize_insert"

LastRows(rows, n) ==
    SubSeq(rows, IF Len(rows) > n THEN Len(rows) - n + 1 ELSE 1, Len(rows))

(***************************************************************************)
(* C17: the history built for a request is the last (most recent) 20       *)
(* messages of the thread of the request, in chronological order.          *)
(***************************************************************************)
C17_Claim ==
    HistoryBuilt
    => HistoryMessages = MapSeq(LastRows(ThreadRows, HISTORY_LIMIT), ConversationMessage)

(***************************************************************************)
(* C18: the history built for a main-thread request holds only messages    *)
(* whose sub_conversation_id is null, the history built for a              *)
(* sub-conversation request holds only that sub-conversation's messages,   *)
(* preceded by one system message carrying its highlighted text.           *)
(***************************************************************************)
\* every message of the history is a row of the thread of the request, and
\* the rows appear in chronological order
SameMessage(a, b) == a.role = b.role /\ a.content = b.content

RECURSIVE IsSubsequence(_, _)
IsSubsequence(a, b) ==
    IF a = <<>> THEN TRUE
    ELSE IF b = <<>> THEN FALSE
    ELSE IF SameMessage(Head(a), Head(b)) THEN IsSubsequence(Tail(a), Tail(b))
    ELSE IsSubsequence(a, Tail(b))

OnlyOwnThread(messages) ==
    IsSubsequence(messages, MapSeq(ThreadRows, ConversationMessage))

HighlightedText ==
    (CHOOSE r \in db.sub_conversations : r.id = subConversationId).highlighted_text

InternalError == ErrorSSE("INTERNAL_ERROR")

\* the request ended on a stream that accepted every write and the close
EndedConnected == pc = "finished" /\ writer = "closed"

\* no routing event although the oracle's answer could be routed
PreparationThrew ==
    /\ ~UnsupportedTask(ade)
    /\ resolveModel(ade, selectedModelId).ok
    /\ ~Some(out, IsRouting)

\* an attempt succeeded and the assistant message is not in the store
InsertThrew == LastAttemptSucceeded /\ ~Some(db.messages, IsAssistant)

\* the assistant message is in the store and the routing log is not
LogsThrew == Some(db.messages, IsAssistant) /\ db.routing_logs = <<>>

C20_State ==
    /\ pc # "rejected"
    /\ pc = "finished" => writer # "open"
    /\ \A i \in 1..Len(out) : IsError(out[i], "INTERNAL_ERROR") => i = Len(out)
    /\ EndedConnected
        => /\ out # <<>>
           /\ IsDone(Last(out)) \/ IsTerminalError(Last(out))
           /\ PreparationThrew => out = <<InternalError>>
           /\ (InsertThrew \/ LogsThrew)
                => (Last(out) = InternalError /\ ~Some(out, IsDone))

C20_Step ==
    /\ (pc = "handleChat"
        /\ pc' \notin {"handleChat", "send_unsupported", "send_no_provider", "send_routing"})
        => pc' = "catch_send"
    /\ (pc = "finalize_insert" /\ pc' # pc /\ db' = db) => pc' = "catch_send"
    /\ (pc = "finalize_logs" /\ pc' # pc /\ db' = db) => pc' = "catch_send"
    /\ (pc = "catch_send" /\ pc' # pc /\ writer = "open")
        => (out' = Append(out, InternalError) /\ pc' = "catch_close")
    /\ (pc = "catch_close" /\ pc' # pc /\ writer = "open")
        => (writer' = "closed" /\ pc' = "finished")

AtLeast(more, less) ==
    /\ more.inputTokens >= less.inputTokens
    /\ more.outputTokens >= less.outputTokens
    /\ more.reasoningTokens >= less.reasoningTokens
    /\ more.cachedTokens = less.cachedTokens
    /\ more.webSearchRequests = less.webSearchRequests

C21_CostIsMonotonic ==
    LET m == FinalModel
        usage == acc.usage
        cost == calculateCost(m.provider, m.id, usage)
    IN  /\ \A more \in TokenUsages :
              AtLeast(more, usage) => calculateCost(m.provider, m.id, more) >= cost
        /\ cost = calculateCost(m.provider, m.id,
                      [usage EXCEPT !.outputTokens = @ + usage.reasoningTokens,
                                    !.reasoningTokens = 0])
        /\ cost >= 0
        /\ pc = "finalize_logs"
            => (Len(db.messages) = 1 /\ db.messages[1].costUsd = cost)

\* a stored cost on a model with fractional rates, where one more input
\* token leaves the rounded cost unchanged
C21_Witness ==
    /\ pc = "finalize_logs"
    /\ FinalModel.id = "gpt-4o-mini"
    /\ acc.usage.inputTokens = 1
    /\ acc.usage.outputTokens >= 1
    /\ acc.usage.reasoningTokens >= 1
    /\ db.messages[1].costUsd >= 1
    /\ calculateCost("openai", "gpt-4o-mini", [acc.usage EXCEPT !.inputTokens = 2])
         = db.messages[1].costUsd

(***************************************************************************)
(* C22: the content, the thinking content and the citation list stored     *)
(* with the assistant message are the in-order concatenation of the delta  *)
(* texts, the thinking texts and the citations of the events the finalized *)
(* attempt pulled from its adapter, and of no other attempt.               *)
(***************************************************************************)
RECURSIVE ThinkingText(_)
ThinkingText(events) ==
    IF events = <<>> THEN ""
    ELSE ThinkingText(Front(events))
         \o (IF Last(events).type = "thinking" THEN Last(events).content ELSE "")

RECURSIVE CitedSources(_)
CitedSources(events) ==
    IF events = <<>> THEN <<>>
    ELSE CitedSources(Front(events))
         \o (IF Last(events).type = "citations" THEN Last(events).citations ELSE <<>>)

C23_Claim ==
    /\ \A i \in 1..Len(attempts) :
          attempts[i].status = "failed" => attempts[i].error # WriteRejected
    /\ Len(attempts) >= 2 => attempts[1].error # WriteRejected

(***************************************************************************)
(* C24: on every path through a request, writes that fail included,        *)
(* writer.close() is invoked exactly once: never a second time, and once   *)
(* when the request has ended.                                             *)
(***************************************************************************)
C24_Claim ==
    /\ closeCalls <= 1
    /\ pc = "finished" => closeCalls = 1

(***************************************************************************)
(* C25: the primary of every routing decision is on a vendor that is       *)
(* usable now (its credential is configured), and so is every backup on    *)
(* which an attempt is started.                                            *)
(***************************************************************************)
UsableVendors == env \cap SUPPORTED_PROVIDERS

C25_Claim ==
    /\ resolved.ok => resolved.model.provider \in UsableVendors
    /\ \A i \in 2..Len(attempts) : attempts[i].model.provider \in UsableVendors

(***************************************************************************)
(* C26: at the fallback decision a backup whose vendor has no credential   *)
(* configured is skipped: the backup attempt is made on the first backup   *)
(* of the chain whose vendor is usable at that moment.                     *)
(***************************************************************************)
FirstUsableBackup ==
    LET Usable(m) == m.provider \in UsableVendors
    IN  FirstIndex(resolved.backupModels, Usable)

C26_Claim ==
    Len(attempts) >= 2
    => /\ FirstUsableBackup # 0
       /\ attempts[2].model = resolved.backupModels[FirstUsableBackup]

(***************************************************************************)
(* The event sequence of an adapter, as the running attempt pulled it.     *)
(***************************************************************************)
IsTerminalEvent(e) == e.type \in {"done", "error"}

\* the generator of the last attempt returned: its sequence is complete
SequenceCompleted == LastAttemptSucceeded

\* the generator of the last attempt threw
SequenceThrew ==
    Len(attempts) >= 1 /\ Last(attempts).status = "failed"
    /\ Last(attempts).error = VendorError

(***************************************************************************)
(* C27: the event sequence an adapter produces holds exactly one terminal  *)
(* event, done or error, and no event after it.                            *)
(***************************************************************************)
C27_Claim ==
    /\ Count(pulled, IsTerminalEvent) <= 1
    /\ \A i \in 1..Len(pulled) : IsTerminalEvent(pulled[i]) => i = Len(pulled)
    /\ (SequenceCompleted \/ SequenceThrew) => Count(pulled, IsTerminalEvent) = 1

(***************************************************************************)
(* C28: a vendor failure does not leave an adapter's stream as an          *)
(* exception: the sequence ends with an error event carrying the message.  *)
(***************************************************************************)
C28_Claim ==
    /\ ~SequenceThrew
    /\ \A i \in 1..Len(attempts) :
          (attempts[i].status = "failed" /\ attempts[i].error = VendorError)
          => (i = Len(attempts) /\ pulled # <<>> /\ Last(pulled) = ErrorEv(VendorError))

(***************************************************************************)
(* C29: the webSearchUsed flag of an adapter's done event is true exactly  *)
(* when the sequence carried a citations event or the vendor reported a    *)
(* search invocation; the flag stored with the assistant message is true   *)
(* whenever the finalized attempt carried a citations event.               *)
(***************************************************************************)
IsCitations(e) == e.type = "citations"

C29_Claim ==
    /\ \A i \in 1..Len(pulled) :
          IsDone(pulled[i])
          => (pulled[i].webSearchUsed
                <=> (Some(SubSeq(pulled, 1, i), IsCitations)
                     \/ pulled[i].usage.webSearchRequests > 0))
    /\ \A i \in 1..Len(db.messages) :
          (IsAssistant(db.messages[i]) /\ Some(pulled, IsCitations))
          => db.messages[i].webSearchUsed

\* the last step was a call of getProvider
GetProviderOutcomes == {"returned", "threw_missing_key", "threw_unsupported"}

C30_State ==
    /\ \A a, b \in providerCache : a.vendor = b.vendor => a = b
    /\ \A a \in providerCache : a.vendor \in SUPPORTED_PROVIDERS
    /\ pc = "returned" =>
          /\ returnedProvider \in providerCache
          /\ returnedProvider.vendor = providerName
    /\ pc \in GetProviderOutcomes =>
          (pc = "threw_unsupported" <=> providerName \notin SUPPORTED_PROVIDERS)

C30_Step ==
    /\ providerCache \subseteq providerCache'
    /\ pc' \in GetProviderOutcomes =>
          \A a \in providerCache :
              a.vendor = providerName' => pc' = "returned" /\ returnedProvider' = a
    /\ pc' \in {"threw_missing_key", "threw_unsupported"} =>
          providerCache' = providerCache
    /\ pc' = "threw_missing_key" => providerName' \notin env

\* C30: over any sequence of getProvider calls the cache holds at most one
\* adapter per vendor, and only supported vendors; an adapter once cached is
\* never replaced, and every later call for its vendor returns that same
\* adapter; a call that throws (missing API key, or Unsupported provider
\* for a name outside the supported vendors) leaves the cache as it was.
C30_OneAdapterPerVendor == [](C30_State) /\ [][C30_Step]_vars

\* a cached adapter is returned after later adapters were constructed and
\* after the API key of its vendor was unset
C30_Witness ==
    /\ pc = "returned"
    /\ returnedProvider.serial < Cardinality(providerCache)
    /\ returnedProvider.vendor \notin env

\* the i-th attempt failed before a stream existed: the vendor check or
\* getProvider threw
ConstructionFailed(i) ==
    /\ i <= Len(attempts)
    /\ attempts[i].status = "failed"
    /\ attempts[i].error \in {MissingKeyError, UnsupportedProviderError}

\* what handleChat does after a failed attempt: the retry notice and one
\* backup attempt after the primary when a backup on a supported vendor
\* exists, PROVIDER_ERROR when none does, ALL_PROVIDERS_FAILED after the backup
AfterFailure(n) ==
    IF n = 1
    THEN IF \E i \in 1..Len(resolved.backupModels) : OnSupportedVendor(resolved.backupModels[i])
         THEN "send_retry"
         ELSE "send_provider_error"
    ELSE "send_all_failed"

C31_State ==
    /\ Len(attempts) <= 2
    /\ \A i \in 1..Len(attempts) :
        ConstructionFailed(i)
        => /\ i <= Len(apiCallLogs)
           /\ apiCallLogs[i] = ApiCallLog(attempts[i].model, 500, attempts[i].error)
           /\ i = Len(attempts) =>
                 /\ acc = EmptyAcc
                 /\ pulled = <<>>
                 /\ ~Some(db.messages, IsAssistant)
                 /\ ~Some(out, IsDone)
                 /\ pc \notin {"stream_pull", "stream_forward", "finalize_insert"}
    /\ (ConstructionFailed(2) /\ pc = "close_all_failed")
       => Last(out) = ErrorSSE("ALL_PROVIDERS_FAILED")
    /\ (ConstructionFailed(2) /\ pc = "finished" /\ writer = "closed")
       => Last(out) = ErrorSSE("ALL_PROVIDERS_FAILED")

\* a step in which the attempt that was running, or that was just begun,
\* ends as failed
C31_Step ==
    LET n == Len(attempts')
        began == n = Len(attempts) + 1
        ended == n = Len(attempts) /\ n >= 1 /\ attempts[n].status = "running"
    IN  ((began \/ ended) /\ attempts'[n].status = "failed")
        => /\ pc' = AfterFailure(n)
           /\ began <=> attempts'[n].error \in {MissingKeyError, UnsupportedProviderError}
           /\ began => acc' = EmptyAcc

\* C31: an attempt that fails because getProvider throws (missing API
\* key) or because the model's vendor is unsupported returns failed with
\* empty buffers and is logged with status 500, and handleChat continues as
\* after a stream error: after the primary with the retry notice and one
\* backup attempt (PROVIDER_ERROR when there is no backup), after the
\* backup with ALL_PROVIDERS_FAILED, which is then the last event of the
\* stream; no assistant message is stored.
C31_ConstructionFailureIsAnAttemptFailure == [](C31_State) /\ [][C31_Step]_vars

\* both the primary and the backup failed at construction and the request
\* ended with ALL_PROVIDERS_FAILED
C31_Witness ==
    /\ ConstructionFailed(1)
    /\ ConstructionFailed(2)
    /\ pc = "finished"
    /\ writer = "closed"
    /\ out[Len(out) - 1] = ErrorSSE("PROVIDER_RETRY")
    /\ Last(out) = ErrorSSE("ALL_PROVIDERS_FAILED")

\* the keys of MODEL_PRICING the model id starts with or includes
MatchingEntries(modelId) ==
    { i \in 1..Len(MODEL_PRICING) :
        startsWith(modelId, MODEL_PRICING[i].key) \/ includes(modelId, MODEL_PRICING[i].key) }

\* the resolution order as claimed: the exact key, else the longest matching
\* key, else the default of the vendor, else the global default
LongestMatchPricing(modelId, provider) ==
    LET Exact(e) == e.key = modelId
        KeyLen(i) == Len(Chars(MODEL_PRICING[i].key))
        matching == MatchingEntries(modelId)
    IN  IF FirstIndex(MODEL_PRICING, Exact) # 0
        THEN MODEL_PRICING[FirstIndex(MODEL_PRICING, Exact)].pricing
        ELSE IF matching # {}
        THEN MODEL_PRICING[CHOOSE i \in matching :
                               \A j \in matching : KeyLen(j) <= KeyLen(i)].pricing
        ELSE IF provider \in SUPPORTED_PROVIDERS THEN PROVIDER_DEFAULTS(provider)
        ELSE Pricing(2000, 10000)

\* C32: getModelPricing returns, for the model and vendor of the priced
\* attempt, the rates of the exact key, else of the longest key the model
\* id starts with or includes, else the default of the vendor, else the
\* global default of 2 and 10 dollars per million tokens.
C32_Claim ==
    getModelPricing(FinalModel.id, FinalModel.provider)
        = LongestMatchPricing(FinalModel.id, FinalModel.provider)

\* the four token counts of a row of messages, and those of a usage record
StoredTokens(m) == <<m.tokens_input, m.tokens_output, m.tokens_reasoning, m.tokens_cached>>
TokenCounts(u) == <<u.inputTokens, u.outputTokens, u.reasoningTokens, u.cachedTokens>>

\* C33: the four token counts stored with the assistant message and the
\* four token counts of the done event on the stream are those of the usage
\* the adapter of the successful attempt reported with its done event (the
\* last one it yielded, zero counts when it yielded none), and the stored
\* cost is the cost of the done event.
C33_UsageIsStoredAndSentAsReported ==
    LET reported == TokenCounts(ReportedUsage(pulled))
    IN  /\ \A i \in 1..Len(db.messages) :
             IsAssistant(db.messages[i])
             => /\ LastAttemptSucceeded
                /\ StoredTokens(db.messages[i]) = reported
                /\ \A j \in 1..Len(out) :
                     IsDone(out[j]) => out[j].costUsd = db.messages[i].costUsd
        /\ \A j \in 1..Len(out) :
             IsDone(out[j])
             => /\ TokenCounts(out[j].usage) = reported
                /\ Some(db.messages, IsAssistant)

\* the request ended with a done event after the adapter reported a usage
\* with reasoning tokens and a cost above zero
C33_Witness ==
    /\ pc = "finished"
    /\ Some(out, IsDone)
    /\ Some(db.messages, IsAssistant)
    /\ ReportedUsage(pulled).reasoningTokens > 0
    /\ Last(out).costUsd > 0

\* a message with this id is stored in this conversation
MessageOf(store, convId, messageId) ==
    \E i \in 1..Len(store.messages) :
        store.messages[i].id = messageId /\ store.messages[i].conversation_id = convId

C34_State ==
    \A sc \in db.sub_conversations : MessageOf(db, sc.conversation_id, sc.parent_message_id)

\* a step that answers a create request
C34_Step ==
    LET r == request'
        new == db'.sub_conversations \ db.sub_conversations
    IN  pc' \in {"responded_201", "responded_400", "responded_404", "responded_500"}
        => /\ db'.messages = db.messages
           /\ db.sub_conversations \subseteq db'.sub_conversations
           /\ pc' = "responded_201" =>
                 /\ MessageOf(db, r.conversationId, r.messageId)
                 /\ Cardinality(new) = 1
                 /\ \A sc \in new : /\ sc.conversation_id = r.conversationId
                                     /\ sc.parent_message_id = r.messageId
           /\ pc' # "responded_201" => new = {}
           /\ (pc' # "responded_400" /\ ~MessageOf(db, r.conversationId, r.messageId))
                 => pc' = "responded_404"

\* C34: a create request inserts one sub-conversation, for the conversation
\* and the parent message it names, only when a message with that id is
\* stored in that conversation when the select runs; when none is, it fails
\* with Parent message not found in this conversation (status 404) and
\* inserts nothing; so every stored sub-conversation references a message
\* of its own conversation.
C34_ParentReferenceHolds == [](C34_State) /\ [][C34_Step]_vars

\* a create request naming a message of the other conversation was answered
\* 404 after a sub-conversation had been created
C34_Witness ==
    /\ pc = "responded_404"
    /\ db.sub_conversations # {}
    /\ \E i \in 1..Len(db.messages) :
          /\ db.messages[i].id = request.messageId
          /\ db.messages[i].conversation_id # request.conversationId

\* the body is missing or not an object, or its message is absent, not a
\* string, or blank
BadBody ==
    \/ request.kind \in {"malformed", "null", "string"}
    \/ request.message.type # "string"
    \/ request.message.value \in {"", "   "}

\* C35: a chat request whose body is missing or not an object, or whose
\* message is absent, not a string or blank, is rejected in handleChat's
\* first step: the handler goes from its start to its catch block, so the
\* oracle is not consulted, no model is resolved and no attempt is made;
\* the store stays as it was (no conversation, message or log is written)
\* and the stream carries nothing but the INTERNAL_ERROR event.
C35_BadBodyCreatesNothing ==
    BadBody
    => /\ db \in {EmptyStore, SeededStore}
       /\ pc \in {"handleChat", "catch_send", "catch_close", "post_send", "post_close",
                   "finished"}
       /\ conversationId = NoConversation
       /\ history = <<>>
       /\ resolved = NoResolution
       /\ attempts = <<>>
       /\ apiCallLogs = <<>>
       /\ providerCache = {}
       /\ Len(out) <= 1
       /\ \A i \in 1..Len(out) : IsError(out[i], "INTERNAL_ERROR")
       /\ (pc = "finished" /\ writer = "closed") => Len(out) = 1

\* a request with a blank message on a store that holds the conversation
\* and the sub-conversation it names ended with the error event
C35_Witness ==
    /\ request.kind = "object"
    /\ request.message = String("   ")
    /\ db = SeededStore
    /\ pc = "finished"
    /\ writer = "closed"
    /\ out = <<ErrorSSE("INTERNAL_ERROR")>>

\* the path resolveModel took
ResolvePath ==
    IF selectedModelId # NoModelId
    THEN IF \E i \in 1..Len(AllCandidates) : AllCandidates[i].id = selectedModelId
         THEN "manual match" ELSE "manual no-match"
    ELSE IF OnSupportedVendor(ade.primaryModel) THEN "primary accepted" ELSE "backup promoted"

\* C36: when the ids of the oracle's candidates are pairwise distinct, the
\* backup handleChat would retry with after the primary failed (the first
\* backup on a supported vendor) never has the id of the resolved primary,
\* whichever path resolveModel took.
C36_BackupIsAnotherModel ==
    (resolved.ok /\ DistinctIds(AllCandidates)
        /\ findSupportedBackup(resolved.backupModels) # 0)
    => Backup.id # resolved.model.id

\* a backup was promoted and a fallback candidate remains; a manual
\* selection matched the oracle's primary and a fallback candidate remains
C36_Witness ==
    /\ resolved.ok
    /\ DistinctIds(AllCandidates)
    /\ findSupportedBackup(resolved.backupModels) # 0
    /\ ResolvePath = "backup promoted"
    /\ Len(resolved.backupModels) = MaxOracleBackups

\* the request ended with the done event on the stream
Succeeded == pc = "finished" /\ Some(out, IsDone)

\* the request ended after every attempt had failed
AllAttemptsFailed ==
    /\ pc = "finished"
    /\ attempts # <<>>
    /\ \A i \in 1..Len(attempts) : attempts[i].status = "failed"

\* C37: no API call log is in the store before finalize has inserted the
\* assistant message; a request that succeeded on the primary has stored
\* exactly one API call log, with status 200; one that succeeded on the
\* backup exactly two, the primary's with status 500 and its error message
\* before the backup's with status 200; one whose attempts all failed has
\* stored no API call log and no routing log.
C37_Claim ==
    /\ ~Some(db.messages, IsAssistant) => db.api_call_logs = <<>>
    /\ (Succeeded /\ Len(attempts) = 1)
       => db.api_call_logs = <<ApiCallLog(attempts[1].model, 200, NoError)>>
    /\ (Succeeded /\ Len(attempts) = 2)
       => db.api_call_logs = <<ApiCallLog(attempts[1].model, 500, attempts[1].error),
                               ApiCallLog(attempts[2].model, 200, NoError)>>
    /\ AllAttemptsFailed => (db.api_call_logs = <<>> /\ db.routing_logs = <<>>)

\* the body is accepted and carries the id of a sub-conversation
InSubConversation ==
    /\ ~BadBody
    /\ request.subConversationId.type = "string"

\* the sub-conversation the body names, as stored before the request
StoredSubConversation ==
    { r \in db.sub_conversations : r.id = request.subConversationId.value }

\* the rows of messages this request inserted
InsertedMessages ==
    { i \in 1..Len(db.messages) : db.messages[i].id \in {"u1", MessageId} }

\* C38: for an accepted chat request that carries a subConversationId, the
\* conversation id handleChat works with, and with it the conversation id
\* of the user message, of the history, of the routing and done events and
\* of the assistant message, is the one stored on that sub-conversation,
\* whatever conversationId the body carries; when no such sub-conversation
\* is stored, the stream carries nothing but the error event and no
\* message is written.
C38_SubConversationDecidesConversation ==
    InSubConversation
    => IF StoredSubConversation = {}
       THEN /\ conversationId = NoConversation
            /\ db \in {EmptyStore, SeededStore}
            /\ attempts = <<>>
            /\ \A i \in 1..Len(out) : IsError(out[i], "INTERNAL_ERROR")
       ELSE \A sc \in StoredSubConversation :
            /\ conversationId \in {NoConversation, sc.conversation_id}
            /\ subConversationId \in {NoSubConversation, sc.id}
            /\ \A i \in InsertedMessages :
                 /\ db.messages[i].conversation_id = sc.conversation_id
                 /\ db.messages[i].sub_conversation_id = sc.id
            /\ \A i \in 1..Len(history) :
                 history[i].role # "system"
                 => \E j \in 1..Len(db.messages) :
                      /\ db.messages[j].content = history[i].content
                      /\ db.messages[j].conversation_id = sc.conversation_id
                      /\ db.messages[j].sub_conversation_id = sc.id
            /\ \A i \in 1..Len(out) :
                 (IsRouting(out[i]) \/ IsDone(out[i]))
                 => /\ out[i].conversationId = sc.conversation_id
                    /\ out[i].subConversationId = sc.id
            /\ pc \notin {"handleChat", "catch_send", "catch_close", "post_send",
                           "post_close", "finished"}
               => conversationId = sc.conversation_id

\* a request in sub-conversation s1 of conversation c1 whose body names
\* conversation c2 ended with the done event
C38_Witness ==
    /\ InSubConversation
    /\ request.conversationId = String("c2")
    /\ request.subConversationId = String("s1")
    /\ pc = "finished"
    /\ Some(out, IsDone)
    /\ Last(out).conversationId = "c1"
    /\ history # <<>>
    /\ \E i \in 1..Len(db.messages) :
          IsAssistant(db.messages[i]) /\ db.messages[i].conversation_id = "c1"

\* the request ended with one of the four errors that follow the
\* preparation as the last event of the stream
EndedWithError ==
    /\ pc = "finished"
    /\ out # <<>>
    /\ Last(out).type = "error"
    /\ Last(out).code \in {"UNSUPPORTED_TASK", "NO_PROVIDER", "PROVIDER_ERROR",
                            "ALL_PROVIDERS_FAILED"}

\* the user message of the request, as saved
IsUserMessageOfRequest(m) ==
    /\ m.id = "u1"
    /\ m.role = "user"
    /\ m.conversation_id = conversationId
    /\ m.content = trim(request.message.value)

\* C39: once the preparation is over (the oracle was consulted), and still
\* after the request ended with UNSUPPORTED_TASK, NO_PROVIDER,
\* PROVIDER_ERROR or ALL_PROVIDERS_FAILED, the store holds the user message
\* of the request and its conversation; after such an end it holds no
\* assistant message and no log of the request, a conversation that existed
\* before has the updated_at it had, and one the request created has the
\* updated_at of its creation.
C39_UserMessageStaysAfterFailure ==
    /\ pc \notin {"handleChat", "catch_send", "catch_close", "post_send", "post_close",
                   "finished"}
       => Some(db.messages, IsUserMessageOfRequest)
    /\ EndedWithError
       => /\ Count(db.messages, IsUserMessageOfRequest) = 1
          /\ \E c \in db.conversations : c.id = conversationId
          /\ ~Some(db.messages, IsAssistant)
          /\ db.routing_logs = <<>>
          /\ db.api_call_logs = <<>>
          /\ \A c \in db.conversations :
               IF c.id = NewConversationId
               THEN /\ request.conversationId = Undefined
                    /\ \E i \in 1..Len(db.messages) :
                          /\ IsUserMessageOfRequest(db.messages[i])
                          /\ c.updated_at = db.messages[i].created_at
               ELSE c.updated_at = 0

\* a first message created its conversation and the request ended with
\* ALL_PROVIDERS_FAILED
C39_Witness ==
    /\ EndedWithError
    /\ Last(out).code = "ALL_PROVIDERS_FAILED"
    /\ conversationId = NewConversationId
    /\ db.conversations # {}
    /\ Some(db.messages, IsUserMessageOfRequest)

\* the oracle named no model on a supported vendor
NoCandidateSupported ==
    \A i \in 1..Len(AllCandidates) :
        AllCandidates[i].provider \notin SUPPORTED_PROVIDERS

IsNoProviderError(e) == IsError(e, "NO_PROVIDER")

\* C40: with a manual model id in the request, resolveModel returns a
\* decision marked isManualSelection for the oracle's response, whatever
\* the vendors of its candidates; the request never takes the NO_PROVIDER
\* branch and the stream never carries a NO_PROVIDER error.
C40_ManualSelectionAlwaysResolves ==
    selectedModelId # NoModelId
    => /\ resolveModel(ade, selectedModelId).ok
       /\ resolveModel(ade, selectedModelId).isManualSelection
       /\ pc # "send_no_provider"
       /\ ~Some(out, IsNoProviderError)
       /\ Some(out, IsRouting) => resolved.ok /\ resolved.isManualSelection

\* a manual model id with an oracle response whose candidates are all on
\* unsupported vendors: the request was routed to the selected model
C40_Witness ==
    /\ selectedModelId # NoModelId
    /\ NoCandidateSupported
    /\ Some(out, IsRouting)
    /\ resolved.ok
    /\ resolved.isManualSelection
    /\ resolved.model.id = selectedModelId

====
